---- MODULE Spec2Model ----
(***************************************************************************)
(* Model of the festival edge functions (group-schedules, lineups,         *)
(* set-times).  Every HTTP request runs in a slot; a slot walks through    *)
(* the handler one store call at a time, so that requests interleave at    *)
(* exactly the points where the TypeScript code awaits the store.  The     *)
(* work a handler does between two store calls (authentication, URL and    *)
(* body checks, building the response) is local to the request and is      *)
(* folded into the step of the neighbouring store call.                    *)
(*                                                                         *)
(* A store call either takes effect or returns an error object; the        *)
(* supabase-js query builders resolve with {data, error} and do not        *)
(* reject, so a failing call is an error result, chosen                    *)
(* nondeterministically at every call.                                     *)
(***************************************************************************)
EXTENDS Integers, FiniteSets, Sequences, TLC

\* ------------------------------------------------------------------ bounds
MaxSlots == 2        \* requests in flight at the same time
MaxRequests == 2     \* requests started in one behaviour
MaxGroups == 1       \* group_schedules ids handed out by the serial column
MaxLineups == 2      \* lineups ids handed out by the serial column
MaxCollabs == 2      \* artist_collaborations ids handed out by the serial column
MaxArtists == 4      \* rows of table artists in the catalogue of the artists function
MaxEvents == 2       \* events ids handed out by the serial column
MaxStages == 2       \* stages ids handed out by the serial column
MaxSetTimes == 3     \* set_times ids handed out by the serial column
MaxListed == 3       \* rows of the tables a listing pages through
MaxSegments == 3     \* segments of a request path
MaxInTurn == 1       \* requests of a behaviour that takes one request after another

Slots == 1..MaxSlots
Users == {"u1", "u2"}
NoUser == "anon"     \* absent or invalid bearer token
GroupIds == 1..MaxGroups

VARIABLES
  events,                \* ids of the rows of table events
  artists,               \* ids of the rows of table artists
  stages,                \* rows of table stages
  set_times,             \* rows of table set_times
  nextEventId,           \* serial of events.id
  nextArtistId,          \* serial of artists.id
  nextStageId,           \* serial of stages.id
  nextSetTimeId,         \* serial of set_times.id
  user_events,           \* rows of table user_events
  artist_collaborations, \* rows of table artist_collaborations
  nextCollabId,          \* serial of artist_collaborations.id
  lineups,               \* rows of table lineups
  nextLineupId,          \* serial of lineups.id
  group_schedules,       \* rows of table group_schedules
  group_members,         \* rows of table group_members
  nextGroupId,           \* serial of group_schedules.id
  established,           \* ids of the groups whose creation was answered 201
  started,               \* number of requests received so far
  req                    \* the request running in each slot

vars == <<events, artists, stages, set_times, nextEventId, nextArtistId, nextStageId,
          nextSetTimeId, user_events,
          artist_collaborations, nextCollabId, lineups,
          nextLineupId, group_schedules, group_members, nextGroupId,
          established, started, req>>

festivalVars == <<events, artists, stages, set_times, nextEventId, nextArtistId, nextStageId,
                  nextSetTimeId, user_events>>
groupVars == <<group_schedules, group_members, nextGroupId, established>>
lineupVars == <<lineups, nextLineupId>>
collabVars == <<artist_collaborations, nextCollabId>>

\* ------------------------------------------------------- request records
\* fn      the handler the router dispatched to ("idle": free slot)
\* pc      the store call the handler is about to make, or "done"
\* user    the identity getAuthenticatedUser resolved
\* id      the id taken from the URL
\* body    the parsed JSON body
\* row     the id of the row the request inserted (group.id)
\* merr    memberError of handleCreateGroupSchedule
\* cerr    outcome of the compensating delete of handleCreateGroupSchedule
\*         (the code keeps no variable for it: the result is dropped)
\* fault   TRUE once a store call of the request returned an error that
\*         the store's own rules do not explain (transport, policy, ...)
\* status  HTTP status of the response, msg its error string
\* writes  number of insert/update/delete calls the request has issued
\* logs    the error objects the request reported with console.error
\* authz   the grant the permission checks found
\* key     TRUE when the x-api-key header equals the configured key
\* bearer  the bearer token of the request and what the authentication
\*         provider does with it
\* data    the payload of the response, where the model keeps it
NoBody == [none |-> TRUE]

Idle ==
  [fn |-> "idle", pc |-> "idle", user |-> NoUser, id |-> 0, body |-> NoBody,
   row |-> 0, merr |-> "none", cerr |-> "none", fault |-> FALSE,
   status |-> 0, msg |-> "", writes |-> 0, logs |-> {}, authz |-> "none",
   key |-> FALSE, bearer |-> <<NoUser, "user">>, data |-> NoBody]

NewRequest(fn, user, id, body) ==
  [Idle EXCEPT !.fn = fn, !.user = user, !.id = id, !.body = body]

\* The value of the environment variable API_KEY.
API_KEY == "admin-key"

\* The request with its x-api-key header: field key tells whether the header
\* holds the administrative key.
Keyed(q, header) == [q EXCEPT !.key = (header = API_KEY)]

\* Faulty variant: a missing credential is answered 403.
unauthorizedResponseForbidden(q) ==
  [q EXCEPT !.pc = "done", !.status = 403, !.msg = "Unauthorized"]

unauthorizedResponse(q) ==
  [q EXCEPT !.pc = "done", !.status = 401, !.msg = "Unauthorized"]

badRequestResponse(q, message) ==
  [q EXCEPT !.pc = "done", !.status = 400, !.msg = message]

notFoundResponse(q, message) ==
  [q EXCEPT !.pc = "done", !.status = 404, !.msg = message]

\* Faulty variant: the body of the response has no error field.
serverErrorResponseNoError(q, message) ==
  [q EXCEPT !.pc = "done", !.status = 500, !.msg = "", !.data = NoBody]

\* The body of the response is { error: message } and nothing else: what
\* the handler had fetched before the failure is not part of it.
serverErrorResponse(q, message) ==
  [q EXCEPT !.pc = "done", !.status = 500, !.msg = message, !.data = NoBody]

Response(q, status, message) ==
  [q EXCEPT !.pc = "done", !.status = status, !.msg = message]

Log(q, line) == [q EXCEPT !.logs = @ \cup {line}]

Wrote(q) == [q EXCEPT !.writes = @ + 1]

Faulted(q) == [q EXCEPT !.fault = TRUE]

\* A new request takes the first free slot.
Free(r) ==
  /\ started < MaxRequests
  /\ req[r].fn = "idle"
  /\ \A s \in Slots : s < r => req[s].fn # "idle"

\* A request whose handler has returned before it read the id of the URL
\* and the body: every handler asks for the identity first.
Unread(q) == [q EXCEPT !.id = 0, !.body = NoBody]

\* auth.getUser(token): it resolves with the user, resolves with an error
\* (or without a user), or throws.
ProviderOutcomes == {"user", "error", "throw"}

\* Faulty variant: the token is taken for the user without asking the provider.
getAuthenticatedUserUnchecked(token, provider) == token

\* getAuthenticatedUser: a missing or rejected token, or a failing call to
\* the authentication provider, all give "no user".  The provider is asked
\* only when the request carries a token.
getAuthenticatedUser(token, provider) ==
  IF token # NoUser /\ provider = "user" THEN token ELSE NoUser

\* The catch branch of getAuthenticatedUser: an exception of the provider
\* call is reported with console.error before "no user" is returned.
getAuthenticatedUserCatch(q, token, provider) ==
  IF token # NoUser /\ provider = "throw"
  THEN Log(q, "Error authenticating user") ELSE q

\* The request with its Authorization header, and the outcome of the
\* provider call that getAuthenticatedUser makes for it.
Presented(q, token, provider) == [q EXCEPT !.bearer = <<token, provider>>]

\* --------------------------------------------------------- store queries
GroupRows(id) == {g \in group_schedules : g.id = id}

\* Faulty variant: the created_by filter is missing.
GroupCreatedByAnyone(id, user) == {g \in group_schedules : g.id = id}

GroupCreatedBy(id, user) ==
  {g \in group_schedules : g.id = id /\ g.created_by = user}

\* Faulty variant: the user_id filter is missing.
MemberRowsAnyUser(gid, user) == {m \in group_members : m.group_id = gid}

MemberRows(gid, user) ==
  {m \in group_members : m.group_id = gid /\ m.user_id = user}

\* Faulty variant: the is_admin filter is missing.
AdminRowsAnyMember(gid, user) ==
  {m \in group_members : m.group_id = gid /\ m.user_id = user}

AdminRows(gid, user) ==
  {m \in group_members : m.group_id = gid /\ m.user_id = user /\ m.is_admin}

MembersOf(gid) == {m \in group_members : m.group_id = gid}

\* Faulty variant: the delete has no filter on the id.
DeleteGroupUnfiltered(gid) ==
  /\ group_schedules' = {}
  /\ group_members' = {}

\* delete from group_schedules where id = gid; the foreign key of
\* group_members cascades.
DeleteGroup(gid) ==
  /\ group_schedules' = group_schedules \ GroupRows(gid)
  /\ group_members' = group_members \ MembersOf(gid)

\* Faulty variant: the creator is added without the admin flag.
CreatorMemberNotAdmin(gid, user) ==
  [group_id |-> gid, user_id |-> user, is_admin |-> FALSE, status |-> "accepted"]

CreatorMember(gid, user) ==
  [group_id |-> gid, user_id |-> user, is_admin |-> TRUE, status |-> "accepted"]

Init ==
  /\ events = {1}
  /\ artists = {1, 2}
  /\ stages = {[id |-> 1, event_id |-> 1]}
  /\ set_times = {[id |-> 1, stage_id |-> 1, artist_id |-> 1],
                  [id |-> 2, stage_id |-> 1, artist_id |-> 2]}
  /\ nextEventId = 2
  /\ nextArtistId = 3
  /\ nextStageId = 2
  /\ nextSetTimeId = 3
  /\ user_events = {}
  /\ artist_collaborations = {}
  /\ nextCollabId = 1
  /\ lineups = {}
  /\ nextLineupId = 1
  /\ group_schedules = {}
  /\ group_members = {}
  /\ nextGroupId = 1
  /\ established = {}
  /\ started = 0
  /\ req = [r \in Slots |-> Idle]

\* ------------------------------------------- POST /group-schedules (create)
CreateBodies == {[name |-> n, event_id |-> e] : n \in {"", "a"}, e \in {0, 1}}

\* Lines 346-363: authentication and validation, up to the first store call.
ReceiveCreateGroupSchedule(r, header) ==
  /\ Free(r)
  /\ started' = started + 1
  /\ \E token \in Users \cup {NoUser}, provider \in ProviderOutcomes :
       LET user == getAuthenticatedUser(token, provider) IN
       IF user = NoUser
         THEN req' = [req EXCEPT ![r] =
                unauthorizedResponse(getAuthenticatedUserCatch(
                  Keyed(Presented(NewRequest("createGroupSchedule", NoUser, 0, NoBody), token, provider), header), token, provider))]
         ELSE \E body \in CreateBodies :
                LET q == Keyed(Presented(NewRequest("createGroupSchedule", user, 0, body), token, provider), header)
                IN req' = [req EXCEPT ![r] =
                     IF body.name = "" THEN badRequestResponse(q, "Missing required field: name")
                     ELSE IF body.event_id = 0
                       THEN badRequestResponse(q, "Missing required field: event_id")
                     ELSE [q EXCEPT !.pc = "insert_group"]]
  /\ UNCHANGED <<festivalVars, collabVars, lineupVars, groupVars>>

\* The same, while the serial of group_schedules.id is below MaxGroups.
StartCreateGroupSchedule(r, header) ==
  /\ nextGroupId + Cardinality({s \in Slots : req[s].pc = "insert_group"}) <= MaxGroups
  /\ ReceiveCreateGroupSchedule(r, header)

\* Lines 365-392: insert into group_schedules.
CreateInsertGroup(r) ==
  /\ req[r].pc = "insert_group"
  /\ \E outcome \in {"ok", "rls", "error"} :
       LET q == Wrote(req[r]) IN
       CASE outcome = "ok" ->
              /\ group_schedules' = group_schedules \cup
                   {[id |-> nextGroupId, name |-> q.body.name,
                     event_id |-> q.body.event_id, created_by |-> q.user]}
              /\ nextGroupId' = nextGroupId + 1
              /\ req' = [req EXCEPT ![r] = [q EXCEPT !.pc = "insert_member", !.row = nextGroupId]]
         [] outcome = "rls" ->
              /\ req' = [req EXCEPT ![r] =
                   Response(Log(Faulted(q), "groupError"), 403,
                            "Row Level Security policy violation: group_schedules")]
              /\ UNCHANGED <<group_schedules, nextGroupId>>
         [] outcome = "error" ->
              /\ req' = [req EXCEPT ![r] =
                   serverErrorResponse(Log(Faulted(q), "groupError"),
                                       "groupError.message")]
              /\ UNCHANGED <<group_schedules, nextGroupId>>
  /\ UNCHANGED <<started, festivalVars, collabVars, lineupVars, group_members, established>>

\* Lines 394-409, 426 and 437-444: insert the creator into group_members.
\* The store refuses the row when the group it refers to is gone (foreign
\* key); any refusal leads to the compensating delete.
CreateInsertMember(r) ==
  /\ req[r].pc = "insert_member"
  /\ \E outcome \in {"ok", "rls", "error"} :
       LET q == Wrote(req[r]) IN
       CASE outcome = "ok" /\ GroupRows(q.row) # {} ->
              /\ group_members' = group_members \cup {CreatorMember(q.row, q.user)}
              /\ established' = established \cup {q.row}
              /\ req' = [req EXCEPT ![r] = Response(q, 201, "")]
         [] outcome = "rls" ->
              /\ req' = [req EXCEPT ![r] =
                   [Log(Faulted(q), "memberError")
                      EXCEPT !.pc = "cleanup", !.merr = "rls"]]
              /\ UNCHANGED <<group_members, established>>
         [] outcome = "error" \/ (outcome = "ok" /\ GroupRows(q.row) = {}) ->
              /\ req' = [req EXCEPT ![r] =
                   [Log(IF outcome = "error" THEN Faulted(q) ELSE q, "memberError")
                      EXCEPT !.pc = "cleanup", !.merr = "error"]]
              /\ UNCHANGED <<group_members, established>>
  /\ UNCHANGED <<started, festivalVars, collabVars, lineupVars, group_schedules, nextGroupId>>

\* Faulty variant: the response is returned without the compensating delete.
CreateCleanupUnawaited(r) ==
  /\ req[r].pc = "cleanup"
  /\ req' = [req EXCEPT ![r] =
       IF req[r].merr = "rls"
         THEN Response(req[r], 403, "Row Level Security policy violation: group_members")
         ELSE serverErrorResponse(req[r], "memberError.message")]
  /\ UNCHANGED <<started, festivalVars, collabVars, lineupVars, groupVars>>

\* Lines 410-423 and 428-434: the compensating delete, whose result the
\* handler does not look at, and the response for the member error.
CreateCleanup(r) ==
  /\ req[r].pc = "cleanup"
  /\ \E outcome \in {"ok", "error"} :
       LET q == [Wrote(req[r]) EXCEPT !.cerr = outcome] IN
       /\ IF outcome = "ok"
            THEN DeleteGroup(q.row)
            ELSE UNCHANGED <<group_schedules, group_members>>
       /\ req' = [req EXCEPT ![r] =
            IF q.merr = "rls"
              THEN Response(q, 403, "Row Level Security policy violation: group_members")
              ELSE serverErrorResponse(q, "memberError.message")]
  /\ UNCHANGED <<started, festivalVars, collabVars, lineupVars, nextGroupId, established>>

\* ---------------------------------------- GET /group-schedules/:id (read)
\* Lines 236-248: authentication; the router only dispatches here with a
\* numeric id in the URL.
StartGetGroupSchedule(r, header) ==
  /\ Free(r)
  /\ started' = started + 1
  /\ \E token \in Users \cup {NoUser}, provider \in ProviderOutcomes :
       LET user == getAuthenticatedUser(token, provider) IN
       IF user = NoUser
         THEN req' = [req EXCEPT ![r] =
                unauthorizedResponse(getAuthenticatedUserCatch(
                  Keyed(Presented(NewRequest("getGroupSchedule", NoUser, 0, NoBody), token, provider), header), token, provider))]
         ELSE \E id \in GroupIds :
                req' = [req EXCEPT ![r] =
                  [Keyed(Presented(NewRequest("getGroupSchedule", user, id, NoBody), token, provider), header) EXCEPT !.pc = "get_creator"]]
  /\ UNCHANGED <<festivalVars, collabVars, lineupVars, groupVars>>

\* Lines 250-265: is the caller the creator?
GetCheckCreator(r) ==
  /\ req[r].pc = "get_creator"
  /\ \E outcome \in {"ok", "error"} :
       LET q == req[r] IN
       req' = [req EXCEPT ![r] =
         IF outcome = "error"
           THEN serverErrorResponse(Log(Faulted(q), "creatorError"),
                                    "creatorError.message")
         ELSE IF GroupCreatedBy(q.id, q.user) # {}
           THEN [q EXCEPT !.pc = "get_group", !.authz = "creator"]
         ELSE [q EXCEPT !.pc = "get_member"]]
  /\ UNCHANGED <<started, festivalVars, collabVars, lineupVars, groupVars>>

\* Lines 266-284: is the caller a member? Neither creator nor member: 404.
GetCheckMember(r) ==
  /\ req[r].pc = "get_member"
  /\ \E outcome \in {"ok", "error"} :
       LET q == req[r] IN
       req' = [req EXCEPT ![r] =
         IF outcome = "error"
           THEN serverErrorResponse(Log(Faulted(q), "memberError"),
                                    "memberError.message")
         ELSE IF MemberRows(q.id, q.user) # {}
           THEN [q EXCEPT !.pc = "get_group", !.authz = "member"]
         ELSE notFoundResponse(q, "Group schedule not found or you don't have access")]
  /\ UNCHANGED <<started, festivalVars, collabVars, lineupVars, groupVars>>

\* Lines 286-308: read the group with .single(), an error when no row is left.
GetFetchGroup(r) ==
  /\ req[r].pc = "get_group"
  /\ \E outcome \in {"ok", "error"} :
       LET q == req[r] IN
       req' = [req EXCEPT ![r] =
         IF outcome = "error" \/ GroupRows(q.id) = {}
           THEN serverErrorResponse(
                  Log(IF outcome = "error" THEN Faulted(q) ELSE q, "error"),
                  "error.message")
         ELSE [q EXCEPT !.pc = "get_members"]]
  /\ UNCHANGED <<started, festivalVars, collabVars, lineupVars, groupVars>>

\* Lines 310-337: read the members and answer with the group's data.
GetFetchMembers(r) ==
  /\ req[r].pc = "get_members"
  /\ \E outcome \in {"ok", "error"} :
       LET q == req[r] IN
       req' = [req EXCEPT ![r] =
         IF outcome = "error"
           THEN serverErrorResponse(Log(Faulted(q), "membersError"),
                                    "membersError.message")
         ELSE Response(q, 200, "")]
  /\ UNCHANGED <<started, festivalVars, collabVars, lineupVars, groupVars>>

\* -------------------------------------- PUT /group-schedules/:id (update)
UpdateBodies ==
  {[name |-> "b"], [name |-> "b", id |-> 9], [name |-> "b", created_by |-> "u2"],
   [name |-> "b", id |-> 0], [name |-> "b", created_by |-> ""]}

\* Lines 469-477: a truthy id or created_by is removed from the payload.
StripUpdates(u) ==
  LET dropId == IF "id" \in DOMAIN u THEN (IF u.id # 0 THEN {"id"} ELSE {}) ELSE {}
      dropBy == IF "created_by" \in DOMAIN u
                  THEN (IF u.created_by # "" THEN {"created_by"} ELSE {}) ELSE {}
  IN [f \in DOMAIN u \ (dropId \cup dropBy) |-> u[f]]

\* update(updates): the columns named in the payload take its values.
ApplyUpdates(g, u) == [f \in DOMAIN g |-> IF f \in DOMAIN u THEN u[f] ELSE g[f]]

\* Lines 453-477: authentication, body, stripping.
StartUpdateGroupSchedule(r, header) ==
  /\ Free(r)
  /\ started' = started + 1
  /\ \E token \in Users \cup {NoUser}, provider \in ProviderOutcomes :
       LET user == getAuthenticatedUser(token, provider) IN
       IF user = NoUser
         THEN req' = [req EXCEPT ![r] =
                unauthorizedResponse(getAuthenticatedUserCatch(
                  Keyed(Presented(NewRequest("updateGroupSchedule", NoUser, 0, NoBody), token, provider), header), token, provider))]
         ELSE \E id \in GroupIds, updates \in UpdateBodies :
                req' = [req EXCEPT ![r] =
                  [Keyed(Presented(NewRequest("updateGroupSchedule", user, id, StripUpdates(updates)), token, provider), header)
                     EXCEPT !.pc = "upd_creator"]]
  /\ UNCHANGED <<festivalVars, collabVars, lineupVars, groupVars>>

\* Lines 479-492: is the caller the creator?
UpdateCheckCreator(r) ==
  /\ req[r].pc = "upd_creator"
  /\ \E outcome \in {"ok", "error"} :
       LET q == req[r] IN
       req' = [req EXCEPT ![r] =
         IF outcome = "error"
           THEN serverErrorResponse(Log(Faulted(q), "permissionError"),
                                    "permissionError.message")
         ELSE IF GroupCreatedBy(q.id, q.user) # {}
           THEN [q EXCEPT !.pc = "upd_write", !.authz = "creator"]
         ELSE [q EXCEPT !.pc = "upd_admin"]]
  /\ UNCHANGED <<started, festivalVars, collabVars, lineupVars, groupVars>>

\* Lines 493-510: is the caller an admin member? If not: 401.
UpdateCheckAdmin(r) ==
  /\ req[r].pc = "upd_admin"
  /\ \E outcome \in {"ok", "error"} :
       LET q == req[r] IN
       req' = [req EXCEPT ![r] =
         IF outcome = "error"
           THEN serverErrorResponse(Log(Faulted(q), "adminError"),
                                    "adminError.message")
         ELSE IF AdminRows(q.id, q.user) # {}
           THEN [q EXCEPT !.pc = "upd_write", !.authz = "admin"]
         ELSE unauthorizedResponse(q)]
  /\ UNCHANGED <<started, festivalVars, collabVars, lineupVars, groupVars>>

\* The answers of the store to update(updates).eq("id", id) on an existing
\* group.  A payload that still names an id (0, which the test "if
\* (updates.id)" lets through) rewrites the primary key: the store refuses
\* a key that another row has (23505); for a group that has members it
\* refuses (23503), lets the memberships follow ("cascade") or, where the
\* reference is no declared constraint, leaves them ("ok").  A payload that
\* still names created_by ("") is written, or refused where the column
\* takes no such value (22P02): the schema is not part of the repository.
GroupUpdateResults(id, updates) ==
  LET key == IF "id" \notin DOMAIN updates THEN {"ok"}
             ELSE IF updates.id = id THEN {"ok"}
             ELSE IF GroupRows(updates.id) # {} THEN {"23505"}
             ELSE IF MembersOf(id) # {} THEN {"23503", "cascade", "ok"}
             ELSE {"ok"}
  IN IF "created_by" \in DOMAIN updates /\ key # {"23505"} THEN key \cup {"22P02"} ELSE key

\* Lines 512-528: the update, read back with .single().
UpdateWrite(r) ==
  /\ req[r].pc = "upd_write"
  /\ \E outcome \in {"ok", "error"} :
       LET q == Wrote(req[r]) IN
       IF outcome = "error" \/ GroupRows(q.id) = {}
         THEN /\ req' = [req EXCEPT ![r] =
                   serverErrorResponse(
                     Log(IF outcome = "error" THEN Faulted(q) ELSE q, "error"),
                     "error.message")]
              /\ UNCHANGED <<group_schedules, group_members>>
         ELSE \E code \in GroupUpdateResults(q.id, q.body) :
                IF code \in {"23505", "23503", "22P02"}
                  THEN /\ req' = [req EXCEPT ![r] =
                            serverErrorResponse(Log(q, "error"), "error.message")]
                       /\ UNCHANGED <<group_schedules, group_members>>
                  ELSE /\ group_schedules' =
                            {IF g.id = q.id THEN ApplyUpdates(g, q.body) ELSE g :
                               g \in group_schedules}
                       /\ group_members' =
                            IF code = "cascade"
                              THEN {IF m.group_id = q.id THEN [m EXCEPT !.group_id = q.body.id]
                                    ELSE m : m \in group_members}
                              ELSE group_members
                       /\ req' = [req EXCEPT ![r] = Response(q, 200, "")]
  /\ UNCHANGED <<started, festivalVars, collabVars, lineupVars, nextGroupId, established>>

\* ----------------------------------- DELETE /group-schedules/:id (delete)
\* Lines 537-549: authentication.
StartDeleteGroupSchedule(r, header) ==
  /\ Free(r)
  /\ started' = started + 1
  /\ \E token \in Users \cup {NoUser}, provider \in ProviderOutcomes :
       LET user == getAuthenticatedUser(token, provider) IN
       IF user = NoUser
         THEN req' = [req EXCEPT ![r] =
                unauthorizedResponse(getAuthenticatedUserCatch(
                  Keyed(Presented(NewRequest("deleteGroupSchedule", NoUser, 0, NoBody), token, provider), header), token, provider))]
         ELSE \E id \in GroupIds :
                req' = [req EXCEPT ![r] =
                  [Keyed(Presented(NewRequest("deleteGroupSchedule", user, id, NoBody), token, provider), header) EXCEPT !.pc = "del_creator"]]
  /\ UNCHANGED <<festivalVars, collabVars, lineupVars, groupVars>>

\* Lines 551-566: only the creator passes.
DeleteCheckCreator(r) ==
  /\ req[r].pc = "del_creator"
  /\ \E outcome \in {"ok", "error"} :
       LET q == req[r] IN
       req' = [req EXCEPT ![r] =
         IF outcome = "error"
           THEN serverErrorResponse(Log(Faulted(q), "permissionError"),
                                    "permissionError.message")
         ELSE IF GroupCreatedBy(q.id, q.user) # {}
           THEN [q EXCEPT !.pc = "del_write", !.authz = "creator"]
         ELSE unauthorizedResponse(q)]
  /\ UNCHANGED <<started, festivalVars, collabVars, lineupVars, groupVars>>

\* Lines 568-582: the delete; member rows go with the group.
DeleteWrite(r) ==
  /\ req[r].pc = "del_write"
  /\ \E outcome \in {"ok", "error"} :
       LET q == Wrote(req[r]) IN
       IF outcome = "error"
         THEN /\ req' = [req EXCEPT ![r] =
                   serverErrorResponse(Log(Faulted(q), "error"),
                                       "error.message")]
              /\ UNCHANGED <<group_schedules, group_members>>
         ELSE /\ DeleteGroup(q.id)
              /\ req' = [req EXCEPT ![r] = Response(q, 200, "")]
  /\ UNCHANGED <<started, festivalVars, collabVars, lineupVars, nextGroupId, established>>

\* ------------------------------------------------ membership management
\* Invitations and admin grants are made by a function outside these
\* sources.  It adds, changes or removes the group_members row of a user
\* other than the creator (unique per group and user), for a group whose
\* id has been disclosed, that is, whose creation is no longer in flight.
SetMembership(gid, user) ==
  /\ GroupRows(gid) # {}
  /\ ~\E s \in Slots :
        req[s].fn = "createGroupSchedule" /\ req[s].row = gid /\ req[s].pc # "done"
  /\ GroupCreatedBy(gid, user) = {}
  /\ \E rows \in {{}} \cup {{[group_id |-> gid, user_id |-> user, is_admin |-> a, status |-> s]} :
                              a \in BOOLEAN, s \in {"invited"}} :
       /\ rows # MemberRows(gid, user)
       /\ group_members' = (group_members \ MemberRows(gid, user)) \cup rows
  /\ UNCHANGED <<started, festivalVars, collabVars, lineupVars, group_schedules,
                 nextGroupId, established, req>>

\* ======================================================== lineups function
\* The store's answer to an insert into lineups: the pair (event_id,
\* artist_id) is unique (error code 23505), and both ids are foreign keys
\* (error code 23503).
LineupInsertResult(event_id, artist_id) ==
  IF \E l \in lineups : l.event_id = event_id /\ l.artist_id = artist_id THEN "23505"
  ELSE IF event_id \notin events \/ artist_id \notin artists THEN "23503"
  ELSE "ok"

\* Faulty variant: the unique-violation code is not recognised.
InsertErrorStatusNoConflict(code) == 500

\* Lines 617-628 (lineups) and 600-611 (set-times): a unique violation is a
\* conflict, any other insert error a server error.
InsertErrorStatus(code) == IF code = "23505" THEN 409 ELSE 500

InsertErrorMessage(code, conflict) == IF code = "23505" THEN conflict ELSE "error.message"

LineupBodies == {[event_id |-> e, artist_id |-> a] : e \in {0, 1, 2}, a \in {0, 1, 2, 3}}

\* ------------------------------------------------- POST /lineups (add entry)
\* Lines 562-574: authentication and required fields.
StartAddLineupEntry(r, header) ==
  /\ Free(r)
  /\ started' = started + 1
  /\ nextLineupId + Cardinality({s \in Slots : req[s].fn = "addLineupEntry" /\ req[s].pc # "done"})
       <= MaxLineups
  /\ \E token \in Users \cup {NoUser}, provider \in ProviderOutcomes, body \in LineupBodies :
       LET user == getAuthenticatedUser(token, provider)
           q == Keyed(Presented(NewRequest("addLineupEntry", user, 0, body), token, provider), header)
       IN req' = [req EXCEPT ![r] =
            IF user = NoUser THEN unauthorizedResponse(getAuthenticatedUserCatch(Unread(q), token, provider))
            ELSE IF body.event_id = 0 \/ body.artist_id = 0
              THEN badRequestResponse(q, "Missing required fields: event_id, artist_id")
            ELSE [q EXCEPT !.pc = "add_event"]]
  /\ UNCHANGED <<festivalVars, collabVars, lineupVars, groupVars>>

\* Lines 576-588: the event must exist (.single()).
AddCheckEvent(r) ==
  /\ req[r].pc = "add_event"
  /\ \E outcome \in {"ok", "error"} :
       LET q == req[r] IN
       req' = [req EXCEPT ![r] =
         IF outcome = "error" \/ q.body.event_id \notin events
           THEN notFoundResponse(IF outcome = "error" THEN Faulted(q) ELSE q,
                                 "Event not found or access denied")
         ELSE [q EXCEPT !.pc = "add_artist"]]
  /\ UNCHANGED <<started, festivalVars, collabVars, lineupVars, groupVars>>

\* Lines 590-602: the artist must exist (.single()).
AddCheckArtist(r) ==
  /\ req[r].pc = "add_artist"
  /\ \E outcome \in {"ok", "error"} :
       LET q == req[r] IN
       req' = [req EXCEPT ![r] =
         IF outcome = "error" \/ q.body.artist_id \notin artists
           THEN notFoundResponse(IF outcome = "error" THEN Faulted(q) ELSE q, "Artist not found")
         ELSE [q EXCEPT !.pc = "add_insert"]]
  /\ UNCHANGED <<started, festivalVars, collabVars, lineupVars, groupVars>>

\* Lines 604-633: the insert and the mapping of its error.
AddInsert(r) ==
  /\ req[r].pc = "add_insert"
  /\ \E outcome \in {"ok", "error"} :
       LET q == Wrote(req[r])
           code == IF outcome = "error" THEN "failure"
                   ELSE LineupInsertResult(q.body.event_id, q.body.artist_id)
       IN IF code = "ok"
            THEN /\ lineups' = lineups \cup
                      {[id |-> nextLineupId, event_id |-> q.body.event_id,
                        artist_id |-> q.body.artist_id]}
                 /\ nextLineupId' = nextLineupId + 1
                 /\ req' = [req EXCEPT ![r] = Response([q EXCEPT !.row = nextLineupId], 200, "")]
            ELSE /\ req' = [req EXCEPT ![r] =
                      Response(IF code = "23505" THEN q
                               ELSE Log(IF outcome = "error" THEN Faulted(q) ELSE q, "error"),
                               InsertErrorStatus(code),
                               InsertErrorMessage(code,
                                 "This artist is already in the lineup for this event"))]
                 /\ UNCHANGED lineupVars
  /\ UNCHANGED <<started, festivalVars, collabVars, groupVars>>

\* ---------------------------------------- DELETE /lineups/:entryId (remove)
\* Lines 707-718: authentication; the router dispatches here with the
\* segment after "lineups" as entry id.
StartRemoveLineupEntry(r, header) ==
  /\ Free(r)
  /\ started' = started + 1
  /\ \E token \in Users \cup {NoUser}, provider \in ProviderOutcomes, id \in 1..MaxLineups :
       LET user == getAuthenticatedUser(token, provider)
           q == Keyed(Presented(NewRequest("removeLineupEntry", user, id, NoBody), token, provider), header)
       IN req' = [req EXCEPT ![r] =
            IF user = NoUser THEN unauthorizedResponse(getAuthenticatedUserCatch(Unread(q), token, provider))
            ELSE [q EXCEPT !.pc = "rm_entry"]]
  /\ UNCHANGED <<festivalVars, collabVars, lineupVars, groupVars>>

\* Lines 720-732: the entry must exist; its event_id is kept.
RemoveCheckEntry(r) ==
  /\ req[r].pc = "rm_entry"
  /\ \E outcome \in {"ok", "error"} :
       LET q == req[r]
           rows == {l \in lineups : l.id = q.id}
       IN req' = [req EXCEPT ![r] =
            IF outcome = "error" \/ rows = {}
              THEN notFoundResponse(IF outcome = "error" THEN Faulted(q) ELSE q,
                                    "Lineup entry not found")
            ELSE [q EXCEPT !.pc = "rm_event",
                           !.body = [event_id |-> (CHOOSE l \in rows : TRUE).event_id]]]
  /\ UNCHANGED <<started, festivalVars, collabVars, lineupVars, groupVars>>

\* Lines 734-743: the event of the entry must be readable.
RemoveCheckEvent(r) ==
  /\ req[r].pc = "rm_event"
  /\ \E outcome \in {"ok", "error"} :
       LET q == req[r] IN
       req' = [req EXCEPT ![r] =
         IF outcome = "error" \/ q.body.event_id \notin events
           THEN unauthorizedResponse(IF outcome = "error" THEN Faulted(q) ELSE q)
         ELSE [q EXCEPT !.pc = "rm_delete"]]
  /\ UNCHANGED <<started, festivalVars, collabVars, lineupVars, groupVars>>

\* Lines 745-759: the delete.
RemoveDelete(r) ==
  /\ req[r].pc = "rm_delete"
  /\ \E outcome \in {"ok", "error"} :
       LET q == Wrote(req[r]) IN
       IF outcome = "error"
         THEN /\ req' = [req EXCEPT ![r] =
                   serverErrorResponse(Log(Faulted(q), "error"), "error.message")]
              /\ UNCHANGED lineups
         ELSE /\ lineups' = {l \in lineups : l.id # q.id}
              /\ req' = [req EXCEPT ![r] = Response(q, 200, "")]
  /\ UNCHANGED <<started, festivalVars, collabVars, nextLineupId, groupVars>>

\* ====================================================== set-times function
\* The store's answer to an insert into artist_collaborations: the pair
\* (set_time_id, artist_id) is unique, and both ids are foreign keys.
CollaborationInsertResult(set_time_id, artist_id) ==
  IF \E c \in artist_collaborations : c.set_time_id = set_time_id /\ c.artist_id = artist_id
    THEN "23505"
  ELSE IF (\A t \in set_times : t.id # set_time_id) \/ artist_id \notin artists THEN "23503"
  ELSE "ok"

SetTimeRows(id) == {t \in set_times : t.id = id}

StageRows(id) == {g \in stages : g.id = id}

\* ====================================================== JavaScript values
\* A query-string value is a sequence of one-character strings; the empty
\* sequence stands for a parameter that is absent (null) or empty.
\* A JavaScript number is a pair: <<n, 1>> is the integer n, <<0, 0>> is NaN
\* and <<1, 0>> is Infinity, so that neither is the value of any numeral.
Finite(n) == <<n, 1>>
NaN == <<0, 0>>
Infinity == <<1, 0>>
IsFinite(x) == x[2] = 1

\* The value of a decimal digit, -1 for any other character.
DigitValue(c) ==
  CASE c = "0" -> 0 [] c = "1" -> 1 [] c = "2" -> 2 [] c = "3" -> 3 [] c = "4" -> 4
    [] c = "5" -> 5 [] c = "6" -> 6 [] c = "7" -> 7 [] c = "8" -> 8 [] c = "9" -> 9
    [] OTHER -> 0 - 1

IsDigit(c) == DigitValue(c) >= 0

\* The value of a character as a digit of the radix, -1 when it is none.
RadixDigit(c, radix) ==
  LET v == CASE c \in {"a", "A"} -> 10 [] c \in {"b", "B"} -> 11 [] c \in {"c", "C"} -> 12
             [] c \in {"d", "D"} -> 13 [] c \in {"e", "E"} -> 14 [] c \in {"f", "F"} -> 15
             [] OTHER -> DigitValue(c)
  IN IF v >= 0 /\ v < radix THEN v ELSE 0 - 1

\* Length of the longest prefix of s made of digits of the radix.
RECURSIVE LeadingDigits(_, _)
LeadingDigits(s, radix) ==
  IF s = <<>> \/ RadixDigit(Head(s), radix) < 0 THEN 0
  ELSE 1 + LeadingDigits(Tail(s), radix)

\* The value of a string of digits of the radix.
RECURSIVE RadixValue(_, _)
RadixValue(s, radix) ==
  IF s = <<>> THEN 0
  ELSE radix * RadixValue(SubSeq(s, 1, Len(s) - 1), radix) + RadixDigit(s[Len(s)], radix)

\* White space and line terminators of a JavaScript string: space, U+0009,
\* U+000A, U+000D, U+000C, U+000B, U+00A0, U+1680 and U+FEFF.  The other
\* space separators (U+2000 to U+200A, U+202F, U+205F, U+3000) and the line
\* terminators U+2028 and U+2029 cannot be written in a string of this
\* module, so no input of the model holds them.
WhiteSpace == {" ", "\t", "\n", "\r", "\f", "", " ", " ", "﻿"}

\* The string without its leading white space.
RECURSIVE TrimStart(_)
TrimStart(s) == IF s # <<>> /\ Head(s) \in WhiteSpace THEN TrimStart(Tail(s)) ELSE s

\* The string without its trailing white space.
RECURSIVE TrimEnd(_)
TrimEnd(s) ==
  IF s # <<>> /\ s[Len(s)] \in WhiteSpace THEN TrimEnd(SubSeq(s, 1, Len(s) - 1)) ELSE s

\* parseInt(string) without a radix: leading white space is skipped, a sign
\* is taken, a prefix 0x or 0X selects radix 16, and the value is that of
\* the longest run of digits that follows; NaN when there is no digit.
parseInt(string) ==
  LET trimmed == TrimStart(string)
      signed == trimmed # <<>> /\ Head(trimmed) \in {"+", "-"}
      sign == IF signed /\ Head(trimmed) = "-" THEN 0 - 1 ELSE 1
      unsigned == IF signed THEN Tail(trimmed) ELSE trimmed
      hex == Len(unsigned) >= 2 /\ unsigned[1] = "0" /\ unsigned[2] \in {"x", "X"}
      radix == IF hex THEN 16 ELSE 10
      digits == IF hex THEN SubSeq(unsigned, 3, Len(unsigned)) ELSE unsigned
      n == LeadingDigits(digits, radix)
  IN IF n = 0 THEN NaN ELSE Finite(sign * RadixValue(SubSeq(digits, 1, n), radix))

\* A value of a JSON body whose type matters to the handler: a number, or
\* a string (a sequence of one-character strings).
JsonNumber(n) == [type |-> "number", value |-> n]
JsonString(s) == [type |-> "string", value |-> s]

\* !value: the number 0 and the empty string are falsy.
Falsy(v) == IF v.type = "number" THEN v.value = 0 ELSE v.value = <<>>

\* The integer the store reads in a value given for an integer column, in
\* a filter or in a row to insert: a number is itself, a string is read
\* as a signed decimal numeral between optional white space, which for the
\* store is space, U+0009, U+000A, U+000B, U+000C and U+000D only; NaN
\* stands for a string the store refuses.
StoredInteger(v) ==
  IF v.type = "number" THEN Finite(v.value)
  ELSE LET isspace == {" ", "\t", "\n", "", "\f", "\r"}
           inked == {k \in 1..Len(v.value) : v.value[k] \notin isspace}
           trimmed == IF inked = {} THEN <<>>
                      ELSE SubSeq(v.value, CHOOSE k \in inked : \A j \in inked : k <= j,
                                  CHOOSE k \in inked : \A j \in inked : j <= k)
           signed == trimmed # <<>> /\ Head(trimmed) \in {"+", "-"}
           digits == IF signed THEN Tail(trimmed) ELSE trimmed
       IN IF digits = <<>> \/ LeadingDigits(digits, 10) # Len(digits) THEN NaN
          ELSE Finite((IF signed /\ Head(trimmed) = "-" THEN 0 - 1 ELSE 1)
                      * RadixValue(digits, 10))

\* Line 550: setTime.artist_id === artist_id.  The artist_id of the body is
\* compared as it came out of req.json(): a string is never strictly equal
\* to the number of the row.
IsMainArtist(setTime, artist_id) ==
  artist_id.type = "number" /\ setTime.artist_id = artist_id.value

CollaborationBodies ==
  {[artist_id |-> v] : v \in {JsonNumber(0), JsonNumber(1), JsonNumber(2), JsonNumber(3),
                              JsonString(<<"1">>), JsonString(<<"x">>),
                              JsonString(<<"", "2">>)}}

\* ------------------------- POST /set_times/:setTimeId/collaborations (add)
\* Lines 515-533: authentication, set time id from the URL, artist_id.
StartAddCollaboration(r, header) ==
  /\ Free(r)
  /\ started' = started + 1
  /\ nextCollabId + Cardinality({s \in Slots : req[s].fn = "addCollaboration" /\ req[s].pc # "done"})
       <= MaxCollabs
  /\ \E token \in Users \cup {NoUser}, provider \in ProviderOutcomes, id \in {1, 2, 3},
        body \in CollaborationBodies :
       LET user == getAuthenticatedUser(token, provider)
           q == Keyed(Presented(NewRequest("addCollaboration", user, id, body), token, provider), header)
       IN req' = [req EXCEPT ![r] =
            IF user = NoUser THEN unauthorizedResponse(getAuthenticatedUserCatch(Unread(q), token, provider))
            ELSE IF Falsy(body.artist_id)
              THEN badRequestResponse(q, "Missing required field: artist_id")
            ELSE [q EXCEPT !.pc = "col_settime"]]
  /\ UNCHANGED <<festivalVars, collabVars, lineupVars, groupVars>>

\* Lines 535-552: the set time must exist, and its artist must differ from
\* the collaborator.  The stage of the set time is kept in row.
AddCollaborationCheckSetTime(r) ==
  /\ req[r].pc = "col_settime"
  /\ \E outcome \in {"ok", "error"} :
       LET q == req[r]
           rows == SetTimeRows(q.id)
       IN req' = [req EXCEPT ![r] =
            IF outcome = "error" \/ rows = {}
              THEN notFoundResponse(IF outcome = "error" THEN Faulted(q) ELSE q,
                                    "Set time not found")
            ELSE LET setTime == CHOOSE t \in rows : TRUE IN
                 IF IsMainArtist(setTime, q.body.artist_id)
                   THEN badRequestResponse(q, "Cannot add main artist as a collaborator")
                   ELSE [q EXCEPT !.pc = "col_artist", !.row = setTime.stage_id]]
  /\ UNCHANGED <<started, festivalVars, collabVars, lineupVars, groupVars>>

\* Lines 554-566: the artist must exist.
AddCollaborationCheckArtist(r) ==
  /\ req[r].pc = "col_artist"
  /\ \E outcome \in {"ok", "error"} :
       LET q == req[r] IN
       req' = [req EXCEPT ![r] =
         IF outcome = "error" \/ StoredInteger(q.body.artist_id) = NaN
            \/ StoredInteger(q.body.artist_id)[1] \notin artists
           THEN notFoundResponse(IF outcome = "error" THEN Faulted(q) ELSE q, "Artist not found")
         ELSE [q EXCEPT !.pc = "col_stage"]]
  /\ UNCHANGED <<started, festivalVars, collabVars, lineupVars, groupVars>>

\* Lines 568-577: the stage of the set time gives the event.
AddCollaborationGetStage(r) ==
  /\ req[r].pc = "col_stage"
  /\ \E outcome \in {"ok", "error"} :
       LET q == req[r]
           rows == StageRows(q.row)
       IN req' = [req EXCEPT ![r] =
            IF outcome = "error" \/ rows = {}
              THEN serverErrorResponse(IF outcome = "error" THEN Faulted(q) ELSE q,
                                       "Error retrieving stage information")
            ELSE [q EXCEPT !.pc = "col_event", !.row = (CHOOSE g \in rows : TRUE).event_id]]
  /\ UNCHANGED <<started, festivalVars, collabVars, lineupVars, groupVars>>

\* Lines 579-588: the event must be readable.
AddCollaborationCheckEvent(r) ==
  /\ req[r].pc = "col_event"
  /\ \E outcome \in {"ok", "error"} :
       LET q == req[r] IN
       req' = [req EXCEPT ![r] =
         IF outcome = "error" \/ q.row \notin events
           THEN unauthorizedResponse(IF outcome = "error" THEN Faulted(q) ELSE q)
         ELSE [q EXCEPT !.pc = "col_insert"]]
  /\ UNCHANGED <<started, festivalVars, collabVars, lineupVars, groupVars>>

\* Lines 590-616: the insert and the mapping of its error.
AddCollaborationInsert(r) ==
  /\ req[r].pc = "col_insert"
  /\ \E outcome \in {"ok", "error"} :
       LET q == Wrote(req[r])
           code == IF outcome = "error" THEN "failure"
                   ELSE CollaborationInsertResult(q.id, StoredInteger(q.body.artist_id)[1])
       IN IF code = "ok"
            THEN /\ artist_collaborations' = artist_collaborations \cup
                      {[id |-> nextCollabId, set_time_id |-> q.id,
                        artist_id |-> StoredInteger(q.body.artist_id)[1]]}
                 /\ nextCollabId' = nextCollabId + 1
                 /\ req' = [req EXCEPT ![r] = Response([q EXCEPT !.row = nextCollabId], 200, "")]
            ELSE /\ req' = [req EXCEPT ![r] =
                      Response(IF code = "23505" THEN q
                               ELSE Log(IF outcome = "error" THEN Faulted(q) ELSE q, "error"),
                               InsertErrorStatus(code),
                               InsertErrorMessage(code,
                                 "This artist is already a collaborator for this set time"))]
                 /\ UNCHANGED collabVars
  /\ UNCHANGED <<started, festivalVars, lineupVars, groupVars>>

\* The response has been sent; the slot is free for the next request.
Respond(r) ==
  /\ req[r].pc = "done"
  /\ req' = [req EXCEPT ![r] = Idle]
  /\ UNCHANGED <<started, festivalVars, collabVars, lineupVars, groupVars>>

\* The return of a handler is its response: an answered request leaves
\* before any other step is taken.
ResponseSent == \E r \in Slots : req[r].pc = "done"

NextGroups ==
  \/ ~ResponseSent /\ \E r \in Slots : StartCreateGroupSchedule(r, "null")
  \/ ~ResponseSent /\ \E r \in Slots : CreateInsertGroup(r)
  \/ ~ResponseSent /\ \E r \in Slots : CreateInsertMember(r)
  \/ ~ResponseSent /\ \E r \in Slots : CreateCleanup(r)
  \/ ~ResponseSent /\ \E r \in Slots : StartGetGroupSchedule(r, "null")
  \/ ~ResponseSent /\ \E r \in Slots : GetCheckCreator(r)
  \/ ~ResponseSent /\ \E r \in Slots : GetCheckMember(r)
  \/ ~ResponseSent /\ \E r \in Slots : GetFetchGroup(r)
  \/ ~ResponseSent /\ \E r \in Slots : GetFetchMembers(r)
  \/ ~ResponseSent /\ \E r \in Slots : StartUpdateGroupSchedule(r, "null")
  \/ ~ResponseSent /\ \E r \in Slots : UpdateCheckCreator(r)
  \/ ~ResponseSent /\ \E r \in Slots : UpdateCheckAdmin(r)
  \/ ~ResponseSent /\ \E r \in Slots : UpdateWrite(r)
  \/ ~ResponseSent /\ \E r \in Slots : StartDeleteGroupSchedule(r, "null")
  \/ ~ResponseSent /\ \E r \in Slots : DeleteCheckCreator(r)
  \/ ~ResponseSent /\ \E r \in Slots : DeleteWrite(r)
  \/ ~ResponseSent /\ \E gid \in GroupIds, user \in Users : SetMembership(gid, user)
  \/ \E r \in Slots : Respond(r)

SpecGroups == Init /\ [][NextGroups]_vars

\* Group creations only, several at a time, with no bound on the serial
\* other than the number of requests.
NextCreation ==
  \/ \E r \in Slots : ReceiveCreateGroupSchedule(r, "null")
  \/ \E r \in Slots : CreateInsertGroup(r)
  \/ \E r \in Slots : CreateInsertMember(r)
  \/ \E r \in Slots : CreateCleanup(r)
  \/ \E r \in Slots : Respond(r)

SpecCreation == Init /\ [][NextCreation]_vars

\* Reads and updates of one established group whose second user is an
\* admin member, while memberships change.
InitMembers ==
  /\ events = {1}
  /\ artists = {1, 2}
  /\ stages = {[id |-> 1, event_id |-> 1]}
  /\ set_times = {[id |-> 1, stage_id |-> 1, artist_id |-> 1],
                  [id |-> 2, stage_id |-> 1, artist_id |-> 2]}
  /\ nextEventId = 2
  /\ nextArtistId = 3
  /\ nextStageId = 2
  /\ nextSetTimeId = 3
  /\ user_events = {}
  /\ artist_collaborations = {}
  /\ nextCollabId = 1
  /\ lineups = {}
  /\ nextLineupId = 1
  /\ group_schedules = {[id |-> 1, name |-> "a", event_id |-> 1, created_by |-> "u1"]}
  /\ group_members = {CreatorMember(1, "u1"),
                      [group_id |-> 1, user_id |-> "u2", is_admin |-> TRUE,
                       status |-> "accepted"]}
  /\ nextGroupId = 2
  /\ established = {1}
  /\ started = 0
  /\ req = [r \in Slots |-> Idle]

NextMembers ==
  \/ ~ResponseSent /\ \E r \in Slots : StartGetGroupSchedule(r, "null")
  \/ ~ResponseSent /\ \E r \in Slots : GetCheckCreator(r)
  \/ ~ResponseSent /\ \E r \in Slots : GetCheckMember(r)
  \/ ~ResponseSent /\ \E r \in Slots : GetFetchGroup(r)
  \/ ~ResponseSent /\ \E r \in Slots : GetFetchMembers(r)
  \/ ~ResponseSent /\ \E r \in Slots : StartUpdateGroupSchedule(r, "null")
  \/ ~ResponseSent /\ \E r \in Slots : UpdateCheckCreator(r)
  \/ ~ResponseSent /\ \E r \in Slots : UpdateCheckAdmin(r)
  \/ ~ResponseSent /\ \E r \in Slots : UpdateWrite(r)
  \/ ~ResponseSent /\ \E gid \in GroupIds, user \in Users : SetMembership(gid, user)
  \/ \E r \in Slots : Respond(r)

SpecMembers == InitMembers /\ [][NextMembers]_vars

\* Deletions and updates of the established group, by its creator, by its
\* admin member and by callers without identity.
NextDeletes ==
  \/ ~ResponseSent /\ \E r \in Slots : StartDeleteGroupSchedule(r, "null")
  \/ ~ResponseSent /\ \E r \in Slots : DeleteCheckCreator(r)
  \/ ~ResponseSent /\ \E r \in Slots : DeleteWrite(r)
  \/ ~ResponseSent /\ \E r \in Slots : StartUpdateGroupSchedule(r, "null")
  \/ ~ResponseSent /\ \E r \in Slots : UpdateCheckCreator(r)
  \/ ~ResponseSent /\ \E r \in Slots : UpdateCheckAdmin(r)
  \/ ~ResponseSent /\ \E r \in Slots : UpdateWrite(r)
  \/ \E r \in Slots : Respond(r)

SpecDeletes == InitMembers /\ [][NextDeletes]_vars

NextLineups ==
  \/ \E r \in Slots : StartAddLineupEntry(r, "null")
  \/ \E r \in Slots : AddCheckEvent(r)
  \/ \E r \in Slots : AddCheckArtist(r)
  \/ \E r \in Slots : AddInsert(r)
  \/ \E r \in Slots : StartRemoveLineupEntry(r, "null")
  \/ \E r \in Slots : RemoveCheckEntry(r)
  \/ \E r \in Slots : RemoveCheckEvent(r)
  \/ \E r \in Slots : RemoveDelete(r)
  \/ \E r \in Slots : Respond(r)

SpecLineups == Init /\ [][NextLineups]_vars

\* Lineup inserts only, each running to its response: the requests of a race.
NextLineupRace ==
  \/ \E r \in Slots : StartAddLineupEntry(r, "null")
  \/ \E r \in Slots : AddCheckEvent(r)
  \/ \E r \in Slots : AddCheckArtist(r)
  \/ \E r \in Slots : AddInsert(r)

SpecLineupRace == Init /\ [][NextLineupRace]_vars

NextSetTimes ==
  \/ \E r \in Slots : StartAddCollaboration(r, "null")
  \/ \E r \in Slots : AddCollaborationCheckSetTime(r)
  \/ \E r \in Slots : AddCollaborationCheckArtist(r)
  \/ \E r \in Slots : AddCollaborationGetStage(r)
  \/ \E r \in Slots : AddCollaborationCheckEvent(r)
  \/ \E r \in Slots : AddCollaborationInsert(r)
  \/ \E r \in Slots : Respond(r)

SpecSetTimes == Init /\ [][NextSetTimes]_vars

\* ============================================================ credentials
\* The configured administrative key, and the values the x-api-key header
\* of a request takes ("null": no such header).
ApiKeyHeaders == {"null", "wrong-key", API_KEY}

\* Faulty variant: every request passes.
verifyApiKeyAlways(apiKeyHeader) == TRUE

\* Lines 66-70: the x-api-key header is compared with the configured key.
verifyApiKey(apiKeyHeader) == apiKeyHeader = API_KEY

\* ============================================================= pagination
\* value || fallback, for a query-string value.
OrDefault(value, fallback) == IF value = <<>> THEN fallback ELSE value

\* (page - 1) * pageSize
startRange(page, pageSize) ==
  IF page = NaN \/ pageSize = NaN THEN NaN ELSE Finite((page[1] - 1) * pageSize[1])

\* page * pageSize - 1
endRange(page, pageSize) ==
  IF page = NaN \/ pageSize = NaN THEN NaN ELSE Finite(page[1] * pageSize[1] - 1)

\* Array.prototype.slice(start, end): NaN counts as 0, a negative index
\* counts from the end, both are clamped to the array.
SliceIndex(i, len) ==
  IF i = NaN THEN 0
  ELSE IF i[1] < 0 THEN (IF len + i[1] < 0 THEN 0 ELSE len + i[1])
  ELSE IF i[1] > len THEN len ELSE i[1]

slice(array, start, end) ==
  LET from == SliceIndex(start, Len(array))
      to == SliceIndex(end, Len(array))
  IN IF from < to THEN SubSeq(array, from + 1, to) ELSE <<>>

\* .range(from, to) asks the store for offset = from and limit = to - from + 1;
\* the store answers a negative offset or limit (NaN included) with an error.
rangeNotSatisfiable(from, to) ==
  from = NaN \/ to = NaN \/ from[1] < 0 \/ to[1] - from[1] + 1 < 0

\* The rows the store returns for .range(from, to): those at the zero-based
\* offsets from..to of the result, none for the limit 0.
range(rows, from, to) ==
  IF rangeNotSatisfiable(from, to) \/ to[1] < from[1] \/ from[1] >= Len(rows) THEN <<>>
  ELSE SubSeq(rows, from[1] + 1, IF to[1] + 1 > Len(rows) THEN Len(rows) ELSE to[1] + 1)

\* The orders in which the store may return a set of rows when the query
\* names no order, or orders them by a column the model does not keep.
Orderings(rows) ==
  {s \in [1..Cardinality(rows) -> rows] : \A i, j \in 1..Cardinality(rows) : s[i] = s[j] => i = j}

\* Math.ceil(totalCount / pageSize) for a totalCount >= 0.
MathCeilOfQuotient(totalCount, pageSize) ==
  IF pageSize = NaN THEN NaN
  ELSE IF pageSize[1] = 0 THEN (IF totalCount = 0 THEN NaN ELSE Infinity)
  ELSE IF pageSize[1] > 0 THEN Finite((totalCount + pageSize[1] - 1) \div pageSize[1])
  ELSE Finite(0 - (totalCount \div (0 - pageSize[1])))

\* The ids of a set of rows in ascending order.
RECURSIVE Ascending(_)
Ascending(ids) ==
  IF ids = {} THEN <<>>
  ELSE LET least == CHOOSE i \in ids : \A j \in ids : i <= j
       IN <<least>> \o Ascending(ids \ {least})

\* ========================================================= events function
EventIds == 1..(MaxEvents + 1)

EventBodies ==
  {[name |-> n, date_start |-> "d", date_end |-> e] : n \in {"", "e"}, e \in {"", "d"}}

\* Payloads of an update: without server-assigned fields, with a truthy id,
\* with the id 0 and with the empty created_by.
EventUpdates ==
  {[name |-> "f"], [name |-> "f", id |-> 9], [name |-> "f", id |-> 0],
   [name |-> "f", created_by |-> ""]}

PageValues == {<<>>, <<"1">>, <<"2">>, <<"-", "1">>}
S_true == <<"t", "r", "u", "e">>

\* The query parameters featured, search, from and to of GET /events.
EventFilterValues ==
  {[featured |-> <<>>, search |-> <<>>, from |-> <<>>, to |-> <<>>],
   [featured |-> S_true, search |-> <<"z">>, from |-> <<>>, to |-> <<>>],
   [featured |-> <<"1">>, search |-> <<>>, from |-> <<"d">>, to |-> <<"d">>]}
PageSizeValues == {<<>>, <<"1">>}

\* The store removes the descendants of a deleted event: its stages and
\* lineup entries, the set times of those stages and their collaborations.
DeleteEventCascade(id) ==
  LET gone_stages == {s \in stages : s.event_id = id}
      gone_times == {t \in set_times : \E s \in gone_stages : t.stage_id = s.id}
  IN /\ events' = events \ {id}
     /\ stages' = stages \ gone_stages
     /\ set_times' = set_times \ gone_times
     /\ artist_collaborations' =
          {c \in artist_collaborations : \A t \in gone_times : c.set_time_id # t.id}
     /\ lineups' = {l \in lineups : l.event_id # id}

\* ----------------------------------------------------------- POST /events
\* Lines 101-114: the administrative key, then the required fields.  The
\* bearer token, if any, is not resolved.
StartCreateEvent(r) ==
  /\ Free(r)
  /\ started' = started + 1
  /\ nextEventId + Cardinality({s \in Slots : req[s].fn = "createEvent" /\ req[s].pc # "done"})
       <= MaxEvents
  /\ \E token \in {"u1", NoUser}, header \in ApiKeyHeaders, body \in EventBodies :
       LET q == [NewRequest("createEvent", token, 0, body) EXCEPT !.key = (header = API_KEY)]
       IN req' = [req EXCEPT ![r] =
            IF ~verifyApiKey(header) THEN unauthorizedResponse(q)
            ELSE IF body.name = "" \/ body.date_start = "" \/ body.date_end = ""
              THEN badRequestResponse(q, "Missing required fields: name, date_start, date_end")
            ELSE [q EXCEPT !.pc = "ce_insert"]]
  /\ UNCHANGED <<festivalVars, collabVars, lineupVars, groupVars>>

\* Lines 116-142: the insert, through the service-role client.
CreateEventInsert(r) ==
  /\ req[r].pc = "ce_insert"
  /\ \E outcome \in {"ok", "error"} :
       LET q == Wrote(req[r]) IN
       IF outcome = "error"
         THEN /\ req' = [req EXCEPT ![r] =
                   serverErrorResponse(Log(Faulted(q), "error"), "error.message")]
              /\ UNCHANGED <<events, nextEventId>>
         ELSE /\ events' = events \cup {nextEventId}
              /\ nextEventId' = nextEventId + 1
              /\ req' = [req EXCEPT ![r] = Response([q EXCEPT !.row = nextEventId], 200, "")]
  /\ UNCHANGED <<started, artists, stages, set_times, nextArtistId, nextStageId, nextSetTimeId,
                 user_events,
                 collabVars, lineupVars, groupVars>>

\* ------------------------------------------------------------ GET /events
\* Lines 150-169: authentication, page and pageSize.
StartListEvents(r) ==
  /\ Free(r)
  /\ started' = started + 1
  /\ \E token \in Users \cup {NoUser}, provider \in ProviderOutcomes, header \in {"null", API_KEY},
        page \in PageValues, pageSize \in PageSizeValues, filters \in EventFilterValues :
       LET user == getAuthenticatedUser(token, provider)
           q == [Presented(NewRequest("listEvents", user, 0,
                            [featured |-> filters.featured = S_true,
                             search |-> filters.search,
                             from |-> filters.from,
                             to |-> filters.to,
                             page |-> parseInt(OrDefault(page, <<"1">>)),
                             pageSize |-> parseInt(OrDefault(pageSize, <<"1", "0">>))]), token, provider)
                   EXCEPT !.key = (header = API_KEY)]
       IN req' = [req EXCEPT ![r] =
            IF user = NoUser THEN unauthorizedResponse(getAuthenticatedUserCatch(Unread(q), token, provider))
            ELSE [q EXCEPT !.pc = "le_events"]]
  /\ UNCHANGED <<festivalVars, collabVars, lineupVars, groupVars>>

\* Lines 170-193: the filters of the query.  They read the columns featured,
\* name, date_start and date_end, which the model does not keep: a query
\* with a filter keeps some of the events, a query without one keeps all.
FilteredEvents(filters) ==
  IF filters.featured \/ filters.search # <<>> \/ filters.from # <<>> \/ filters.to # <<>>
  THEN SUBSET events
  ELSE {events}

\* Lines 171-203: the page of events (kept in field row).  The query names
\* no order: the store returns the rows in an order of its own.
ListEventsFetch(r) ==
  /\ req[r].pc = "le_events"
  /\ \E outcome \in {"ok", "error"}, kept \in FilteredEvents(req[r].body) :
     \E stored \in Orderings(kept) :
       LET q == req[r]
           from == startRange(q.body.page, q.body.pageSize)
           to == endRange(q.body.page, q.body.pageSize)
       IN req' = [req EXCEPT ![r] =
            IF outcome = "error"
              THEN serverErrorResponse(Log(Faulted(q), "error"), "error.message")
            ELSE IF rangeNotSatisfiable(from, to)
              THEN serverErrorResponse(Log(q, "error"), "error.message")
            ELSE [q EXCEPT !.pc = "le_user_events", !.row = range(stored, from, to)]]
  /\ UNCHANGED <<started, festivalVars, collabVars, lineupVars, groupVars>>

\* Lines 205-230: the events the user saved; a failure of this query is
\* logged and the response goes out without the flags.
ListEventsUserEvents(r) ==
  /\ req[r].pc = "le_user_events"
  /\ \E outcome \in {"ok", "error"} :
       LET q == req[r]
           saved == IF outcome = "error" THEN {}
                    ELSE {ue.event_id : ue \in {x \in user_events : x.user_id = q.user}}
           enriched == [i \in 1..Len(q.row) |->
                          [id |-> q.row[i], has_user_event |-> q.row[i] \in saved]]
       IN req' = [req EXCEPT ![r] =
            Response([(IF outcome = "error" THEN Log(q, "userEventError") ELSE q)
                        EXCEPT !.data = enriched, !.row = 0], 200, "")]
  /\ UNCHANGED <<started, festivalVars, collabVars, lineupVars, groupVars>>

\* -------------------------------------------------------- GET /events/:id
\* Lines 238-250: authentication.
StartGetEvent(r) ==
  /\ Free(r)
  /\ started' = started + 1
  /\ \E token \in Users \cup {NoUser}, provider \in ProviderOutcomes, header \in {"null", API_KEY},
        id \in EventIds :
       LET user == getAuthenticatedUser(token, provider)
           q == [Presented(NewRequest("getEvent", user, id, NoBody), token, provider) EXCEPT !.key = (header = API_KEY)]
       IN req' = [req EXCEPT ![r] =
            IF user = NoUser THEN unauthorizedResponse(getAuthenticatedUserCatch(Unread(q), token, provider))
            ELSE [q EXCEPT !.pc = "ge_event"]]
  /\ UNCHANGED <<festivalVars, collabVars, lineupVars, groupVars>>

\* Lines 252-268: .single() answers a missing row with the error PGRST116,
\* so the error branch is taken and the "Event not found" branch after it
\* is never reached.
GetEventFetch(r) ==
  /\ req[r].pc = "ge_event"
  /\ \E outcome \in {"ok", "error"} :
       LET q == req[r] IN
       req' = [req EXCEPT ![r] =
         IF outcome = "error"
           THEN serverErrorResponse(Log(Faulted(q), "error"), "error.message")
         ELSE IF q.id \notin events
           THEN serverErrorResponse(Log(q, "error"), "error.message")
         ELSE [q EXCEPT !.pc = "ge_user_event"]]
  /\ UNCHANGED <<started, festivalVars, collabVars, lineupVars, groupVars>>

\* Lines 270-291: the saved flag; a failure of this query is logged only.
GetEventUserEvent(r) ==
  /\ req[r].pc = "ge_user_event"
  /\ \E outcome \in {"ok", "error"} :
       LET q == req[r]
           userEvent == IF outcome = "error" THEN {}
                        ELSE {x \in user_events : x.event_id = q.id /\ x.user_id = q.user}
       IN req' = [req EXCEPT ![r] =
            Response([(IF outcome = "error" THEN Log(q, "userEventError") ELSE q)
                        EXCEPT !.data = [id |-> q.id, has_user_event |-> userEvent # {}]],
                     200, "")]
  /\ UNCHANGED <<started, festivalVars, collabVars, lineupVars, groupVars>>

\* -------------------------------------------------------- PUT /events/:id
\* Lines 299-323: the administrative key; a truthy id or created_by is
\* removed from the payload.
StartUpdateEvent(r) ==
  /\ Free(r)
  /\ started' = started + 1
  /\ \E token \in {"u1", NoUser}, header \in ApiKeyHeaders, id \in EventIds,
        updates \in EventUpdates :
       LET q == [NewRequest("updateEvent", token, id, StripUpdates(updates))
                   EXCEPT !.key = (header = API_KEY)]
       IN req' = [req EXCEPT ![r] =
            IF ~verifyApiKey(header) THEN unauthorizedResponse(q)
            ELSE [q EXCEPT !.pc = "ue_update"]]
  /\ UNCHANGED <<festivalVars, collabVars, lineupVars, groupVars>>

\* The answers of the store to update(updates).eq("id", id) on an existing
\* row.  A payload that still names an id (0, which the test "if
\* (updates.id)" lets through) rewrites the primary key: the store refuses
\* a key that another row has (23505); for a row that others refer to, it
\* refuses (23503), lets the references follow ("cascade") or, where the
\* reference is no declared constraint, leaves them ("ok"): the schema is
\* not part of the repository.
EventUpdateResults(id, updates) ==
  LET referenced ==
        \/ \E s \in stages : s.event_id = id
        \/ \E l \in lineups : l.event_id = id
        \/ \E ue \in user_events : ue.event_id = id
        \/ \E g \in group_schedules : g.event_id = id
  IN IF "id" \notin DOMAIN updates THEN {"ok"}
     ELSE IF updates.id = id THEN {"ok"}
     ELSE IF updates.id \in events THEN {"23505"}
     ELSE IF referenced THEN {"23503", "cascade", "ok"}
     ELSE {"ok"}

\* The tables after the key of event id has become key.
RewriteEventId(id, key, follow) ==
  LET moved(row) == IF follow /\ row.event_id = id THEN [row EXCEPT !.event_id = key] ELSE row
  IN /\ events' = (events \ {id}) \cup {key}
     /\ stages' = {moved(s) : s \in stages}
     /\ lineups' = {moved(l) : l \in lineups}
     /\ user_events' = {moved(ue) : ue \in user_events}
     /\ group_schedules' = {moved(g) : g \in group_schedules}

\* Lines 325-341: update ... .select().single(); when no row has the id
\* the update changes nothing and .single() answers with PGRST116.  The
\* model keeps no column of an event but its id: an update that matches
\* changes the table only when the payload names an id.
UpdateEventWrite(r) ==
  /\ req[r].pc = "ue_update"
  /\ \E outcome \in {"ok", "error"} :
       LET q == Wrote(req[r]) IN
       IF outcome = "error" \/ q.id \notin events
         THEN /\ req' = [req EXCEPT ![r] =
                   serverErrorResponse(Log(IF outcome = "error" THEN Faulted(q) ELSE q, "error"),
                                       "error.message")]
              /\ UNCHANGED <<events, stages, lineups, user_events, group_schedules>>
         ELSE \E code \in EventUpdateResults(q.id, q.body) :
                IF code \in {"23505", "23503"}
                  THEN /\ req' = [req EXCEPT ![r] =
                            serverErrorResponse(Log(q, "error"), "error.message")]
                       /\ UNCHANGED <<events, stages, lineups, user_events, group_schedules>>
                ELSE IF "id" \in DOMAIN q.body
                  THEN /\ RewriteEventId(q.id, q.body.id, code = "cascade")
                       /\ req' = [req EXCEPT ![r] = Response(q, 200, "")]
                ELSE /\ req' = [req EXCEPT ![r] = Response(q, 200, "")]
                     /\ UNCHANGED <<events, stages, lineups, user_events, group_schedules>>
  /\ UNCHANGED <<started, artists, set_times, nextEventId, nextArtistId, nextStageId,
                 nextSetTimeId, collabVars, nextLineupId, group_members, nextGroupId,
                 established>>

\* ----------------------------------------------------- DELETE /events/:id
\* Lines 349-361: the administrative key.
StartDeleteEvent(r) ==
  /\ Free(r)
  /\ started' = started + 1
  /\ \E token \in {"u1", NoUser}, header \in ApiKeyHeaders, id \in EventIds :
       LET q == [NewRequest("deleteEvent", token, id, NoBody) EXCEPT !.key = (header = API_KEY)]
       IN req' = [req EXCEPT ![r] =
            IF ~verifyApiKey(header) THEN unauthorizedResponse(q)
            ELSE [q EXCEPT !.pc = "de_delete"]]
  /\ UNCHANGED <<festivalVars, collabVars, lineupVars, groupVars>>

\* Lines 363-377: the delete; deleting no row is a success as well.
DeleteEventWrite(r) ==
  /\ req[r].pc = "de_delete"
  /\ \E outcome \in {"ok", "error"} :
       LET q == Wrote(req[r]) IN
       IF outcome = "error"
         THEN /\ req' = [req EXCEPT ![r] =
                   serverErrorResponse(Log(Faulted(q), "error"), "error.message")]
              /\ UNCHANGED <<events, stages, set_times, artist_collaborations, lineups>>
         ELSE /\ DeleteEventCascade(q.id)
              /\ req' = [req EXCEPT ![r] = Response(q, 200, "")]
  /\ UNCHANGED <<started, artists, nextEventId, nextArtistId, nextStageId, nextSetTimeId, user_events, nextCollabId,
                 nextLineupId, groupVars>>

\* The store of the events function: one event, which a user may have saved.
InitEvents ==
  /\ events = {1}
  /\ artists = {1, 2}
  /\ stages = {[id |-> 1, event_id |-> 1]}
  /\ set_times = {[id |-> 1, stage_id |-> 1, artist_id |-> 1],
                  [id |-> 2, stage_id |-> 1, artist_id |-> 2]}
  /\ nextEventId = 2
  /\ nextArtistId = 3
  /\ nextStageId = 2
  /\ nextSetTimeId = 3
  /\ user_events \in {{}, {[user_id |-> "u1", event_id |-> 1]}}
  /\ artist_collaborations = {}
  /\ nextCollabId = 1
  /\ lineups = {}
  /\ nextLineupId = 1
  /\ group_schedules = {}
  /\ group_members = {}
  /\ nextGroupId = 1
  /\ established = {}
  /\ started = 0
  /\ req = [r \in Slots |-> Idle]

NextEvents ==
  \/ \E r \in Slots : StartCreateEvent(r)
  \/ \E r \in Slots : CreateEventInsert(r)
  \/ \E r \in Slots : StartListEvents(r)
  \/ \E r \in Slots : ListEventsFetch(r)
  \/ \E r \in Slots : ListEventsUserEvents(r)
  \/ \E r \in Slots : StartGetEvent(r)
  \/ \E r \in Slots : GetEventFetch(r)
  \/ \E r \in Slots : GetEventUserEvent(r)
  \/ \E r \in Slots : StartUpdateEvent(r)
  \/ \E r \in Slots : UpdateEventWrite(r)
  \/ \E r \in Slots : StartDeleteEvent(r)
  \/ \E r \in Slots : DeleteEventWrite(r)
  \/ \E r \in Slots : Respond(r)

SpecEvents == InitEvents /\ [][NextEvents]_vars

\* ======================================================== artists function
ArtistIds == 1..(MaxArtists + 1)

LineupsOfArtist(id) == {l \in lineups : l.artist_id = id}

SetTimesOfArtist(id) == {t \in set_times : t.artist_id = id}

\* Faulty variant: the collaboration count is always zero.
CollaborationsOfNobody(id) == {}

CollaborationsOfArtist(id) == {c \in artist_collaborations : c.artist_id = id}

\* A catalogue in which artist 1 is in up to two lineups and has a set time,
\* artist 2 has a set time, artist 3 is at most a collaborator and the
\* others are referenced by nothing.
InitArtists ==
  /\ events = {1, 2}
  /\ artists = 1..MaxArtists
  /\ stages = {[id |-> 1, event_id |-> 1]}
  /\ set_times = {[id |-> 1, stage_id |-> 1, artist_id |-> 1],
                  [id |-> 2, stage_id |-> 1, artist_id |-> 2]}
  /\ nextEventId = 3
  /\ nextArtistId = MaxArtists + 1
  /\ nextStageId = 2
  /\ nextSetTimeId = 3
  /\ user_events = {}
  /\ artist_collaborations = {[id |-> 1, set_time_id |-> 1, artist_id |-> 3]}
  /\ nextCollabId = 2
  /\ lineups \in
       {{[id |-> 1, event_id |-> 1, artist_id |-> 1]},
        {[id |-> 1, event_id |-> 1, artist_id |-> 1],
         [id |-> 2, event_id |-> 2, artist_id |-> 1]}}
  /\ nextLineupId = 3
  /\ group_schedules = {}
  /\ group_members = {}
  /\ nextGroupId = 1
  /\ established = {}
  /\ started = 0
  /\ req = [r \in Slots |-> Idle]

\* ------------------------------------------------ DELETE /artists/:id
\* Lines 334-346: the administrative key is the only credential looked at;
\* the bearer token, if any, is not resolved (field user keeps the identity
\* it stands for).
StartDeleteArtist(r) ==
  /\ Free(r)
  /\ started' = started + 1
  /\ \E token \in {"u1", NoUser}, header \in ApiKeyHeaders, id \in ArtistIds :
       LET q == [NewRequest("deleteArtist", token, id, NoBody)
                   EXCEPT !.key = (header = API_KEY)]
       IN req' = [req EXCEPT ![r] =
            IF ~verifyApiKey(header) THEN unauthorizedResponse(q)
            ELSE [q EXCEPT !.pc = "da_exists"]]
  /\ UNCHANGED <<festivalVars, collabVars, lineupVars, groupVars>>

\* Lines 348-364: the artist must exist (.single(): no row is PGRST116).
DeleteArtistCheckExists(r) ==
  /\ req[r].pc = "da_exists"
  /\ \E outcome \in {"ok", "error"} :
       LET q == req[r] IN
       req' = [req EXCEPT ![r] =
         IF outcome = "error"
           THEN serverErrorResponse(Log(Faulted(q), "checkError"), "checkError.message")
         ELSE IF q.id \notin artists THEN notFoundResponse(q, "Artist not found")
         ELSE [q EXCEPT !.pc = "da_lineups"]]
  /\ UNCHANGED <<started, festivalVars, collabVars, lineupVars, groupVars>>

\* Lines 366-386: lineup entries block the deletion.
DeleteArtistCountLineups(r) ==
  /\ req[r].pc = "da_lineups"
  /\ \E outcome \in {"ok", "error"} :
       LET q == req[r]
           lineupCount == Cardinality(LineupsOfArtist(q.id))
       IN req' = [req EXCEPT ![r] =
            IF outcome = "error"
              THEN serverErrorResponse(Log(Faulted(q), "lineupError"), "lineupError.message")
            ELSE IF lineupCount > 0
              THEN Response([q EXCEPT !.data = [dependencies |-> [lineups |-> lineupCount]]],
                            409, "Cannot delete artist with existing lineup entries")
            ELSE [q EXCEPT !.pc = "da_settimes"]]
  /\ UNCHANGED <<started, festivalVars, collabVars, lineupVars, groupVars>>

\* Lines 388-407: set times block the deletion.
DeleteArtistCountSetTimes(r) ==
  /\ req[r].pc = "da_settimes"
  /\ \E outcome \in {"ok", "error"} :
       LET q == req[r]
           setTimeCount == Cardinality(SetTimesOfArtist(q.id))
       IN req' = [req EXCEPT ![r] =
            IF outcome = "error"
              THEN serverErrorResponse(Log(Faulted(q), "setTimeError"), "setTimeError.message")
            ELSE IF setTimeCount > 0
              THEN Response([q EXCEPT !.data = [dependencies |-> [set_times |-> setTimeCount]]],
                            409, "Cannot delete artist with existing set times")
            ELSE [q EXCEPT !.pc = "da_collabs"]]
  /\ UNCHANGED <<started, festivalVars, collabVars, lineupVars, groupVars>>

\* Lines 409-428: collaborations block the deletion.
DeleteArtistCountCollaborations(r) ==
  /\ req[r].pc = "da_collabs"
  /\ \E outcome \in {"ok", "error"} :
       LET q == req[r]
           collabCount == Cardinality(CollaborationsOfArtist(q.id))
       IN req' = [req EXCEPT ![r] =
            IF outcome = "error"
              THEN serverErrorResponse(Log(Faulted(q), "collabError"), "collabError.message")
            ELSE IF collabCount > 0
              THEN Response([q EXCEPT !.data =
                               [dependencies |-> [collaborations |-> collabCount]]],
                            409, "Cannot delete artist with existing collaborations")
            ELSE [q EXCEPT !.pc = "da_delete"]]
  /\ UNCHANGED <<started, festivalVars, collabVars, lineupVars, groupVars>>

\* The store's answer to a delete from artists: artist_id is a foreign key
\* of lineups, set_times and artist_collaborations, without cascade, so the
\* delete of a referenced artist is refused (error code 23503).
ArtistDeleteResult(id) ==
  IF \/ \E l \in lineups : l.artist_id = id
     \/ \E t \in set_times : t.artist_id = id
     \/ \E c \in artist_collaborations : c.artist_id = id
    THEN "23503"
    ELSE "ok"

\* Lines 430-444: the delete, through the service-role client; any error
\* of the store is answered 500.
DeleteArtistWrite(r) ==
  /\ req[r].pc = "da_delete"
  /\ \E outcome \in {"ok", "error"} :
       LET q == Wrote(req[r])
           code == IF outcome = "error" THEN "failure" ELSE ArtistDeleteResult(q.id)
       IN
       IF code # "ok"
         THEN /\ req' = [req EXCEPT ![r] =
                   serverErrorResponse(Log(IF outcome = "error" THEN Faulted(q) ELSE q,
                                           "error"), "error.message")]
              /\ UNCHANGED artists
         ELSE /\ artists' = artists \ {q.id}
              /\ req' = [req EXCEPT ![r] = Response(q, 200, "")]
  /\ UNCHANGED <<started, events, stages, set_times, nextEventId, nextArtistId, nextStageId, nextSetTimeId, user_events,
                 collabVars, lineupVars, groupVars>>

\* ------------------------------------------------------------ POST /artists
ArtistBodies == {[name |-> ""], [name |-> "n"]}

ArtistUpdates == {[followers |-> 5], [followers |-> 5, id |-> 9]}

\* Lines 285-290: a truthy id is removed from the payload.
StripId(u) ==
  LET dropId == IF "id" \in DOMAIN u THEN (IF u.id # 0 THEN {"id"} ELSE {}) ELSE {}
  IN [f \in DOMAIN u \ dropId |-> u[f]]

\* Lines 107-120: authentication and the required name; the x-api-key
\* header is not read.
StartCreateArtist(r) ==
  /\ Free(r)
  /\ started' = started + 1
  /\ nextArtistId + Cardinality({s \in Slots : req[s].fn = "createArtist" /\ req[s].pc # "done"})
       <= MaxArtists + 1
  /\ \E token \in Users \cup {NoUser}, provider \in ProviderOutcomes, header \in {"null", API_KEY},
        body \in ArtistBodies :
       LET user == getAuthenticatedUser(token, provider)
           q == [Presented(NewRequest("createArtist", user, 0, body), token, provider) EXCEPT !.key = (header = API_KEY)]
       IN req' = [req EXCEPT ![r] =
            IF user = NoUser THEN unauthorizedResponse(getAuthenticatedUserCatch(Unread(q), token, provider))
            ELSE IF body.name = "" THEN badRequestResponse(q, "Missing required field: name")
            ELSE [q EXCEPT !.pc = "ca_insert"]]
  /\ UNCHANGED <<festivalVars, collabVars, lineupVars, groupVars>>

\* Lines 122-147: the insert.
CreateArtistInsert(r) ==
  /\ req[r].pc = "ca_insert"
  /\ \E outcome \in {"ok", "error"} :
       LET q == Wrote(req[r]) IN
       IF outcome = "error"
         THEN /\ req' = [req EXCEPT ![r] =
                   serverErrorResponse(Log(Faulted(q), "error"), "error.message")]
              /\ UNCHANGED <<artists, nextArtistId>>
         ELSE /\ artists' = artists \cup {nextArtistId}
              /\ nextArtistId' = nextArtistId + 1
              /\ req' = [req EXCEPT ![r] = Response([q EXCEPT !.row = nextArtistId], 201, "")]
  /\ UNCHANGED <<started, events, stages, set_times, nextEventId, nextStageId, nextSetTimeId,
                 user_events,
                 collabVars, lineupVars, groupVars>>

\* ------------------------------------------------------- GET /artists/:id
\* Lines 229-241: authentication.
StartGetArtist(r) ==
  /\ Free(r)
  /\ started' = started + 1
  /\ \E token \in Users \cup {NoUser}, provider \in ProviderOutcomes, header \in {"null", API_KEY},
        id \in ArtistIds :
       LET user == getAuthenticatedUser(token, provider)
           q == [Presented(NewRequest("getArtist", user, id, NoBody), token, provider) EXCEPT !.key = (header = API_KEY)]
       IN req' = [req EXCEPT ![r] =
            IF user = NoUser THEN unauthorizedResponse(getAuthenticatedUserCatch(Unread(q), token, provider))
            ELSE [q EXCEPT !.pc = "ga_artist"]]
  /\ UNCHANGED <<festivalVars, collabVars, lineupVars, groupVars>>

\* Lines 243-263: a missing row (PGRST116) is a 404.
GetArtistFetch(r) ==
  /\ req[r].pc = "ga_artist"
  /\ \E outcome \in {"ok", "error"} :
       LET q == req[r] IN
       req' = [req EXCEPT ![r] =
         IF outcome = "error"
           THEN serverErrorResponse(Log(Faulted(q), "error"), "error.message")
         ELSE IF q.id \notin artists THEN notFoundResponse(q, "Artist not found")
         ELSE Response([q EXCEPT !.data = [id |-> q.id]], 200, "")]
  /\ UNCHANGED <<started, festivalVars, collabVars, lineupVars, groupVars>>

\* ------------------------------------------------------- PUT /artists/:id
\* Lines 271-290: authentication; a truthy id is removed from the payload.
StartUpdateArtist(r) ==
  /\ Free(r)
  /\ started' = started + 1
  /\ \E token \in Users \cup {NoUser}, provider \in ProviderOutcomes, header \in {"null", API_KEY},
        id \in ArtistIds, updates \in ArtistUpdates :
       LET user == getAuthenticatedUser(token, provider)
           q == [Presented(NewRequest("updateArtist", user, id, StripId(updates)), token, provider)
                   EXCEPT !.key = (header = API_KEY)]
       IN req' = [req EXCEPT ![r] =
            IF user = NoUser THEN unauthorizedResponse(getAuthenticatedUserCatch(Unread(q), token, provider))
            ELSE [q EXCEPT !.pc = "ua_exists"]]
  /\ UNCHANGED <<festivalVars, collabVars, lineupVars, groupVars>>

\* Lines 292-308: the artist must exist.
UpdateArtistCheckExists(r) ==
  /\ req[r].pc = "ua_exists"
  /\ \E outcome \in {"ok", "error"} :
       LET q == req[r] IN
       req' = [req EXCEPT ![r] =
         IF outcome = "error"
           THEN serverErrorResponse(Log(Faulted(q), "checkError"), "checkError.message")
         ELSE IF q.id \notin artists THEN notFoundResponse(q, "Artist not found")
         ELSE [q EXCEPT !.pc = "ua_update"]]
  /\ UNCHANGED <<started, festivalVars, collabVars, lineupVars, groupVars>>

\* Lines 310-326: update ... .select().single(); the row may have been
\* deleted since the check, and then .single() answers with PGRST116.
UpdateArtistWrite(r) ==
  /\ req[r].pc = "ua_update"
  /\ \E outcome \in {"ok", "error"} :
       LET q == Wrote(req[r]) IN
       req' = [req EXCEPT ![r] =
         IF outcome = "error"
           THEN serverErrorResponse(Log(Faulted(q), "error"), "error.message")
         ELSE IF q.id \notin artists
           THEN serverErrorResponse(Log(q, "error"), "error.message")
         ELSE Response(q, 200, "")]
  /\ UNCHANGED <<started, festivalVars, collabVars, lineupVars, groupVars>>

NextArtists ==
  \/ \E r \in Slots : StartDeleteArtist(r)
  \/ \E r \in Slots : DeleteArtistCheckExists(r)
  \/ \E r \in Slots : DeleteArtistCountLineups(r)
  \/ \E r \in Slots : DeleteArtistCountSetTimes(r)
  \/ \E r \in Slots : DeleteArtistCountCollaborations(r)
  \/ \E r \in Slots : DeleteArtistWrite(r)
  \/ \E r \in Slots : Respond(r)

SpecArtists == InitArtists /\ [][NextArtists]_vars

\* ========================================================= stages function
StageIds == 1..(MaxStages + 1)

StageBodies == {[name |-> ""], [name |-> "s"]}

StageUpdates ==
  {[name |-> "t"], [name |-> "t", event_id |-> 2], [name |-> "t", event_id |-> 0]}

\* Part 002, lines 237-247: a truthy id or event_id is removed from the
\* payload.
StripStageUpdates(u) ==
  LET dropId == IF "id" \in DOMAIN u THEN (IF u.id # 0 THEN {"id"} ELSE {}) ELSE {}
      dropEvent == IF "event_id" \in DOMAIN u
                     THEN (IF u.event_id # 0 THEN {"event_id"} ELSE {}) ELSE {}
  IN [f \in DOMAIN u \ (dropId \cup dropEvent) |-> u[f]]

\* The store's answer to an insert into stages: event_id is a foreign key.
StageInsertResult(event_id) == IF event_id \notin events THEN "23503" ELSE "ok"

\* The store removes the descendants of a deleted stage: its set times and
\* their collaborations.
DeleteStageCascade(id) ==
  LET gone_times == {x \in set_times : x.stage_id = id}
  IN /\ stages' = {s \in stages : s.id # id}
     /\ set_times' = set_times \ gone_times
     /\ artist_collaborations' =
          {c \in artist_collaborations : \A x \in gone_times : c.set_time_id # x.id}

\* ------------------------------------------- POST /events/:eventId/stages
\* Lines 108-126: authentication and the required name; the x-api-key
\* header is not read.
StartCreateStage(r) ==
  /\ Free(r)
  /\ started' = started + 1
  /\ nextStageId + Cardinality({s \in Slots : req[s].fn = "createStage" /\ req[s].pc # "done"})
       <= MaxStages
  /\ \E token \in Users \cup {NoUser}, provider \in ProviderOutcomes, header \in {"null", API_KEY},
        eventId \in EventIds, body \in StageBodies :
       LET user == getAuthenticatedUser(token, provider)
           q == [Presented(NewRequest("createStage", user, eventId, body), token, provider)
                   EXCEPT !.key = (header = API_KEY)]
       IN req' = [req EXCEPT ![r] =
            IF user = NoUser THEN unauthorizedResponse(getAuthenticatedUserCatch(Unread(q), token, provider))
            ELSE IF body.name = "" THEN badRequestResponse(q, "Name is required")
            ELSE [q EXCEPT !.pc = "cs_event"]]
  /\ UNCHANGED <<festivalVars, collabVars, lineupVars, groupVars>>

\* Lines 128-140: the event must be readable.
CreateStageCheckEvent(r) ==
  /\ req[r].pc = "cs_event"
  /\ \E outcome \in {"ok", "error"} :
       LET q == req[r] IN
       req' = [req EXCEPT ![r] =
         IF outcome = "error" \/ q.id \notin events
           THEN notFoundResponse(IF outcome = "error" THEN Faulted(q) ELSE q,
                                 "Event not found or access denied")
         ELSE [q EXCEPT !.pc = "cs_insert"]]
  /\ UNCHANGED <<started, festivalVars, collabVars, lineupVars, groupVars>>

\* Lines 142-161: the insert.
CreateStageInsert(r) ==
  /\ req[r].pc = "cs_insert"
  /\ \E outcome \in {"ok", "error"} :
       LET q == Wrote(req[r])
           code == IF outcome = "error" THEN "failure" ELSE StageInsertResult(q.id)
       IN IF code = "ok"
            THEN /\ stages' = stages \cup {[id |-> nextStageId, event_id |-> q.id]}
                 /\ nextStageId' = nextStageId + 1
                 /\ req' = [req EXCEPT ![r] = Response([q EXCEPT !.row = nextStageId], 200, "")]
            ELSE /\ req' = [req EXCEPT ![r] =
                      serverErrorResponse(Log(IF outcome = "error" THEN Faulted(q) ELSE q,
                                              "error"), "error.message")]
                 /\ UNCHANGED <<stages, nextStageId>>
  /\ UNCHANGED <<started, events, artists, set_times, nextEventId, nextArtistId, nextSetTimeId,
                 user_events, collabVars, lineupVars, groupVars>>

\* -------------------------------------------- GET /events/:eventId/stages
\* Lines 169-181: authentication.
StartListStages(r) ==
  /\ Free(r)
  /\ started' = started + 1
  /\ \E token \in Users \cup {NoUser}, provider \in ProviderOutcomes, header \in {"null", API_KEY},
        eventId \in EventIds :
       LET user == getAuthenticatedUser(token, provider)
           q == [Presented(NewRequest("listStages", user, eventId, NoBody), token, provider)
                   EXCEPT !.key = (header = API_KEY)]
       IN req' = [req EXCEPT ![r] =
            IF user = NoUser THEN unauthorizedResponse(getAuthenticatedUserCatch(Unread(q), token, provider))
            ELSE [q EXCEPT !.pc = "ls_event"]]
  /\ UNCHANGED <<festivalVars, collabVars, lineupVars, groupVars>>

\* Lines 183-195: the event must be readable.
ListStagesCheckEvent(r) ==
  /\ req[r].pc = "ls_event"
  /\ \E outcome \in {"ok", "error"} :
       LET q == req[r] IN
       req' = [req EXCEPT ![r] =
         IF outcome = "error" \/ q.id \notin events
           THEN notFoundResponse(IF outcome = "error" THEN Faulted(q) ELSE q,
                                 "Event not found or access denied")
         ELSE [q EXCEPT !.pc = "ls_stages"]]
  /\ UNCHANGED <<started, festivalVars, collabVars, lineupVars, groupVars>>

\* Lines 198-213: the stages of the event in the order of their names.  The
\* model keeps no name of a stage (an update may change it): the order by
\* name is some order of the rows.
ListStagesFetch(r) ==
  /\ req[r].pc = "ls_stages"
  /\ \E outcome \in {"ok", "error"} :
     \E ordered \in Orderings({s.id : s \in {x \in stages : x.event_id = req[r].id}}) :
       LET q == req[r] IN
       req' = [req EXCEPT ![r] =
         IF outcome = "error"
           THEN serverErrorResponse(Log(Faulted(q), "error"), "error.message")
         ELSE Response([q EXCEPT !.data = ordered], 200, "")]
  /\ UNCHANGED <<started, festivalVars, collabVars, lineupVars, groupVars>>

\* --------------------------------------------------- PUT /stages/:stageId
\* Lines 220-247: authentication; the payload without id and event_id.
StartUpdateStage(r) ==
  /\ Free(r)
  /\ started' = started + 1
  /\ \E token \in Users \cup {NoUser}, provider \in ProviderOutcomes, header \in {"null", API_KEY},
        stageId \in StageIds, updates \in StageUpdates :
       LET user == getAuthenticatedUser(token, provider)
           q == [Presented(NewRequest("updateStage", user, stageId, StripStageUpdates(updates)), token, provider)
                   EXCEPT !.key = (header = API_KEY)]
       IN req' = [req EXCEPT ![r] =
            IF user = NoUser THEN unauthorizedResponse(getAuthenticatedUserCatch(Unread(q), token, provider))
            ELSE [q EXCEPT !.pc = "us_stage"]]
  /\ UNCHANGED <<festivalVars, collabVars, lineupVars, groupVars>>

\* Lines 252-264: the stage must exist; its event_id is kept (field row).
UpdateStageCheckStage(r) ==
  /\ req[r].pc = "us_stage"
  /\ \E outcome \in {"ok", "error"} :
       LET q == req[r] IN
       req' = [req EXCEPT ![r] =
         IF outcome = "error" \/ StageRows(q.id) = {}
           THEN notFoundResponse(IF outcome = "error" THEN Faulted(q) ELSE q, "Stage not found")
         ELSE [q EXCEPT !.pc = "us_event",
                        !.row = (CHOOSE s \in StageRows(q.id) : TRUE).event_id]]
  /\ UNCHANGED <<started, festivalVars, collabVars, lineupVars, groupVars>>

\* Lines 266-275: the event of the stage must be readable; this is the
\* only permission check of the handler.
UpdateStageCheckEvent(r) ==
  /\ req[r].pc = "us_event"
  /\ \E outcome \in {"ok", "error"} :
       LET q == req[r] IN
       req' = [req EXCEPT ![r] =
         IF outcome = "error" \/ q.row \notin events
           THEN unauthorizedResponse(IF outcome = "error" THEN Faulted(q) ELSE q)
         ELSE [q EXCEPT !.pc = "us_update"]]
  /\ UNCHANGED <<started, festivalVars, collabVars, lineupVars, groupVars>>

\* The store's answer to an update of a stage: event_id, when the payload
\* still names it (0, which the test "if (updates.event_id)" lets through),
\* is a foreign key.
StageUpdateResult(updates) ==
  IF "event_id" \in DOMAIN updates
  THEN (IF updates.event_id \notin events THEN "23503" ELSE "ok")
  ELSE "ok"

\* Lines 277-293: update ... .select().single().  Of the columns of a stage
\* the model keeps id and event_id.
UpdateStageWrite(r) ==
  /\ req[r].pc = "us_update"
  /\ \E outcome \in {"ok", "error"} :
       LET q == Wrote(req[r]) IN
       IF outcome = "error" \/ StageRows(q.id) = {} \/ StageUpdateResult(q.body) # "ok"
         THEN /\ req' = [req EXCEPT ![r] =
                   serverErrorResponse(Log(IF outcome = "error" THEN Faulted(q) ELSE q, "error"),
                                       "error.message")]
              /\ UNCHANGED stages
         ELSE /\ stages' = {IF s.id = q.id THEN ApplyUpdates(s, q.body) ELSE s : s \in stages}
              /\ req' = [req EXCEPT ![r] = Response(q, 200, "")]
  /\ UNCHANGED <<started, events, artists, set_times, nextEventId, nextArtistId, nextStageId,
                 nextSetTimeId, user_events, collabVars, lineupVars, groupVars>>

\* ------------------------------------------------ DELETE /stages/:stageId
\* Lines 301-313: authentication.
StartDeleteStage(r) ==
  /\ Free(r)
  /\ started' = started + 1
  /\ \E token \in Users \cup {NoUser}, provider \in ProviderOutcomes, header \in {"null", API_KEY},
        stageId \in StageIds :
       LET user == getAuthenticatedUser(token, provider)
           q == [Presented(NewRequest("deleteStage", user, stageId, NoBody), token, provider)
                   EXCEPT !.key = (header = API_KEY)]
       IN req' = [req EXCEPT ![r] =
            IF user = NoUser THEN unauthorizedResponse(getAuthenticatedUserCatch(Unread(q), token, provider))
            ELSE [q EXCEPT !.pc = "ds_stage"]]
  /\ UNCHANGED <<festivalVars, collabVars, lineupVars, groupVars>>

\* Lines 315-327: the stage must exist.
DeleteStageCheckStage(r) ==
  /\ req[r].pc = "ds_stage"
  /\ \E outcome \in {"ok", "error"} :
       LET q == req[r] IN
       req' = [req EXCEPT ![r] =
         IF outcome = "error" \/ StageRows(q.id) = {}
           THEN notFoundResponse(IF outcome = "error" THEN Faulted(q) ELSE q, "Stage not found")
         ELSE [q EXCEPT !.pc = "ds_event",
                        !.row = (CHOOSE s \in StageRows(q.id) : TRUE).event_id]]
  /\ UNCHANGED <<started, festivalVars, collabVars, lineupVars, groupVars>>

\* Lines 329-338: the event of the stage must be readable.
DeleteStageCheckEvent(r) ==
  /\ req[r].pc = "ds_event"
  /\ \E outcome \in {"ok", "error"} :
       LET q == req[r] IN
       req' = [req EXCEPT ![r] =
         IF outcome = "error" \/ q.row \notin events
           THEN unauthorizedResponse(IF outcome = "error" THEN Faulted(q) ELSE q)
         ELSE [q EXCEPT !.pc = "ds_delete"]]
  /\ UNCHANGED <<started, festivalVars, collabVars, lineupVars, groupVars>>

\* Lines 340-354: the delete.
DeleteStageWrite(r) ==
  /\ req[r].pc = "ds_delete"
  /\ \E outcome \in {"ok", "error"} :
       LET q == Wrote(req[r]) IN
       IF outcome = "error"
         THEN /\ req' = [req EXCEPT ![r] =
                   serverErrorResponse(Log(Faulted(q), "error"), "error.message")]
              /\ UNCHANGED <<stages, set_times, artist_collaborations>>
         ELSE /\ DeleteStageCascade(q.id)
              /\ req' = [req EXCEPT ![r] = Response(q, 200, "")]
  /\ UNCHANGED <<started, events, artists, nextEventId, nextArtistId, nextStageId,
                 nextSetTimeId, user_events, nextCollabId, lineupVars, groupVars>>

NextStages ==
  \/ \E r \in Slots : StartCreateStage(r)
  \/ \E r \in Slots : CreateStageCheckEvent(r)
  \/ \E r \in Slots : CreateStageInsert(r)
  \/ \E r \in Slots : StartListStages(r)
  \/ \E r \in Slots : ListStagesCheckEvent(r)
  \/ \E r \in Slots : ListStagesFetch(r)
  \/ \E r \in Slots : StartUpdateStage(r)
  \/ \E r \in Slots : UpdateStageCheckStage(r)
  \/ \E r \in Slots : UpdateStageCheckEvent(r)
  \/ \E r \in Slots : UpdateStageWrite(r)
  \/ \E r \in Slots : StartDeleteStage(r)
  \/ \E r \in Slots : DeleteStageCheckStage(r)
  \/ \E r \in Slots : DeleteStageCheckEvent(r)
  \/ \E r \in Slots : DeleteStageWrite(r)
  \/ \E r \in Slots : Respond(r)

SpecStages == Init /\ [][NextStages]_vars

\* ================================== set-times function: writes to set_times
SetTimeIds == 1..(MaxSetTimes + 1)

SetTimeBodies ==
  {[artist_id |-> a, stage_id |-> s, start_time |-> b, end_time |-> "e"] :
     a \in {0, 1, 3}, s \in {1, 2}, b \in {"", "b"}}

SetTimeUpdates == {[notes |-> "n"], [notes |-> "n", id |-> 9], [stage_id |-> 1], [stage_id |-> 2]}

\* The store's answer to an insert into set_times: artist_id and stage_id
\* are foreign keys.
SetTimeInsertResult(artist_id, stage_id) ==
  IF artist_id \notin artists \/ StageRows(stage_id) = {} THEN "23503" ELSE "ok"

\* The store's answer to an update of set_times: stage_id is a foreign key.
SetTimeUpdateResult(updates) ==
  IF "stage_id" \in DOMAIN updates
    THEN (IF StageRows(updates.stage_id) = {} THEN "23503" ELSE "ok")
  ELSE "ok"

\* update(updates): the model keeps the columns id, stage_id and artist_id.
ApplySetTimeUpdates(row, updates) ==
  [f \in DOMAIN row |-> IF f \in DOMAIN updates THEN updates[f] ELSE row[f]]

\* The store removes the collaborations of a deleted set time.
DeleteSetTimeCascade(id) ==
  /\ set_times' = {x \in set_times : x.id # id}
  /\ artist_collaborations' = {c \in artist_collaborations : c.set_time_id # id}

CollaborationRows(id) == {c \in artist_collaborations : c.id = id}

\* ---------------------------------------------------------- POST /set-times
\* Lines 129-142: authentication and the required fields.
StartCreateSetTime(r) ==
  /\ Free(r)
  /\ started' = started + 1
  /\ nextSetTimeId + Cardinality({s \in Slots : req[s].fn = "createSetTime" /\ req[s].pc # "done"})
       <= MaxSetTimes
  /\ \E token \in Users \cup {NoUser}, provider \in ProviderOutcomes, header \in {"null", API_KEY},
        body \in SetTimeBodies :
       LET user == getAuthenticatedUser(token, provider)
           q == [Presented(NewRequest("createSetTime", user, 0, body), token, provider) EXCEPT !.key = (header = API_KEY)]
       IN req' = [req EXCEPT ![r] =
            IF user = NoUser THEN unauthorizedResponse(getAuthenticatedUserCatch(Unread(q), token, provider))
            ELSE IF body.artist_id = 0 \/ body.stage_id = 0 \/ body.start_time = ""
                      \/ body.end_time = ""
              THEN badRequestResponse(q,
                     "Missing required fields: artist_id, stage_id, start_time, end_time")
            ELSE [q EXCEPT !.pc = "ct_artist"]]
  /\ UNCHANGED <<festivalVars, collabVars, lineupVars, groupVars>>

\* Lines 144-156: the artist must exist.
CreateSetTimeCheckArtist(r) ==
  /\ req[r].pc = "ct_artist"
  /\ \E outcome \in {"ok", "error"} :
       LET q == req[r] IN
       req' = [req EXCEPT ![r] =
         IF outcome = "error" \/ q.body.artist_id \notin artists
           THEN notFoundResponse(IF outcome = "error" THEN Faulted(q) ELSE q, "Artist not found")
         ELSE [q EXCEPT !.pc = "ct_stage"]]
  /\ UNCHANGED <<started, festivalVars, collabVars, lineupVars, groupVars>>

\* Lines 158-170: the stage must exist; its event_id is kept (field row).
CreateSetTimeCheckStage(r) ==
  /\ req[r].pc = "ct_stage"
  /\ \E outcome \in {"ok", "error"} :
       LET q == req[r] IN
       req' = [req EXCEPT ![r] =
         IF outcome = "error" \/ StageRows(q.body.stage_id) = {}
           THEN notFoundResponse(IF outcome = "error" THEN Faulted(q) ELSE q, "Stage not found")
         ELSE [q EXCEPT !.pc = "ct_event",
                        !.row = (CHOOSE s \in StageRows(q.body.stage_id) : TRUE).event_id]]
  /\ UNCHANGED <<started, festivalVars, collabVars, lineupVars, groupVars>>

\* Lines 172-181: the event of the stage must be readable.
CreateSetTimeCheckEvent(r) ==
  /\ req[r].pc = "ct_event"
  /\ \E outcome \in {"ok", "error"} :
       LET q == req[r] IN
       req' = [req EXCEPT ![r] =
         IF outcome = "error" \/ q.row \notin events
           THEN unauthorizedResponse(IF outcome = "error" THEN Faulted(q) ELSE q)
         ELSE [q EXCEPT !.pc = "ct_insert"]]
  /\ UNCHANGED <<started, festivalVars, collabVars, lineupVars, groupVars>>

\* Lines 183-204: the insert.
CreateSetTimeInsert(r) ==
  /\ req[r].pc = "ct_insert"
  /\ \E outcome \in {"ok", "error"} :
       LET q == Wrote(req[r])
           code == IF outcome = "error" THEN "failure"
                   ELSE SetTimeInsertResult(q.body.artist_id, q.body.stage_id)
       IN IF code = "ok"
            THEN /\ set_times' = set_times \cup
                      {[id |-> nextSetTimeId, stage_id |-> q.body.stage_id,
                        artist_id |-> q.body.artist_id]}
                 /\ nextSetTimeId' = nextSetTimeId + 1
                 /\ req' = [req EXCEPT ![r] = Response([q EXCEPT !.row = nextSetTimeId], 200, "")]
            ELSE /\ req' = [req EXCEPT ![r] =
                      serverErrorResponse(Log(IF outcome = "error" THEN Faulted(q) ELSE q,
                                              "error"), "error.message")]
                 /\ UNCHANGED <<set_times, nextSetTimeId>>
  /\ UNCHANGED <<started, events, artists, stages, nextEventId, nextArtistId, nextStageId,
                 user_events, collabVars, lineupVars, groupVars>>

\* ---------------------------------------------- PUT /set-times/:setTimeId
\* Lines 345-364: authentication; a truthy id is removed from the payload.
StartUpdateSetTime(r) ==
  /\ Free(r)
  /\ started' = started + 1
  /\ \E token \in Users \cup {NoUser}, provider \in ProviderOutcomes, header \in {"null", API_KEY},
        setTimeId \in SetTimeIds, updates \in SetTimeUpdates :
       LET user == getAuthenticatedUser(token, provider)
           q == [Presented(NewRequest("updateSetTime", user, setTimeId, StripId(updates)), token, provider)
                   EXCEPT !.key = (header = API_KEY)]
       IN req' = [req EXCEPT ![r] =
            IF user = NoUser THEN unauthorizedResponse(getAuthenticatedUserCatch(Unread(q), token, provider))
            ELSE [q EXCEPT !.pc = "ut_settime"]]
  /\ UNCHANGED <<festivalVars, collabVars, lineupVars, groupVars>>

\* Lines 366-378: the set time must exist; its stage_id is kept (field row).
UpdateSetTimeCheckSetTime(r) ==
  /\ req[r].pc = "ut_settime"
  /\ \E outcome \in {"ok", "error"} :
       LET q == req[r]
           stage_id == (CHOOSE x \in SetTimeRows(q.id) : TRUE).stage_id
       IN req' = [req EXCEPT ![r] =
            IF outcome = "error" \/ SetTimeRows(q.id) = {}
              THEN notFoundResponse(IF outcome = "error" THEN Faulted(q) ELSE q,
                                    "Set time not found")
            ELSE IF "stage_id" \in DOMAIN q.body /\ q.body.stage_id # 0
                      /\ q.body.stage_id # stage_id
              THEN [q EXCEPT !.pc = "ut_newstage", !.row = stage_id]
            ELSE [q EXCEPT !.pc = "ut_stage", !.row = stage_id]]
  /\ UNCHANGED <<started, festivalVars, collabVars, lineupVars, groupVars>>

\* Lines 380-394: a new stage_id must name an existing stage.
UpdateSetTimeCheckNewStage(r) ==
  /\ req[r].pc = "ut_newstage"
  /\ \E outcome \in {"ok", "error"} :
       LET q == req[r] IN
       req' = [req EXCEPT ![r] =
         IF outcome = "error" \/ StageRows(q.body.stage_id) = {}
           THEN notFoundResponse(IF outcome = "error" THEN Faulted(q) ELSE q,
                                 "New stage not found")
         ELSE [q EXCEPT !.pc = "ut_stage"]]
  /\ UNCHANGED <<started, festivalVars, collabVars, lineupVars, groupVars>>

\* Lines 396-405: the stage the set time is on; when that read gives no row
\* the answer is 500.  The event_id of the stage is kept (field row).
UpdateSetTimeGetStage(r) ==
  /\ req[r].pc = "ut_stage"
  /\ \E outcome \in {"ok", "error"} :
       LET q == req[r] IN
       req' = [req EXCEPT ![r] =
         IF outcome = "error" \/ StageRows(q.row) = {}
           THEN serverErrorResponse(IF outcome = "error" THEN Faulted(q) ELSE q,
                                    "Error retrieving stage information")
         ELSE [q EXCEPT !.pc = "ut_event",
                        !.row = (CHOOSE s \in StageRows(q.row) : TRUE).event_id]]
  /\ UNCHANGED <<started, festivalVars, collabVars, lineupVars, groupVars>>

\* Lines 407-416: the event of that stage must be readable.
UpdateSetTimeCheckEvent(r) ==
  /\ req[r].pc = "ut_event"
  /\ \E outcome \in {"ok", "error"} :
       LET q == req[r] IN
       req' = [req EXCEPT ![r] =
         IF outcome = "error" \/ q.row \notin events
           THEN unauthorizedResponse(IF outcome = "error" THEN Faulted(q) ELSE q)
         ELSE [q EXCEPT !.pc = "ut_update"]]
  /\ UNCHANGED <<started, festivalVars, collabVars, lineupVars, groupVars>>

\* Lines 418-434: update ... .select().single().
UpdateSetTimeWrite(r) ==
  /\ req[r].pc = "ut_update"
  /\ \E outcome \in {"ok", "error"} :
       LET q == Wrote(req[r])
           code == IF outcome = "error" THEN "failure"
                   ELSE IF SetTimeRows(q.id) = {} THEN "PGRST116"
                   ELSE SetTimeUpdateResult(q.body)
       IN IF code = "ok"
            THEN /\ set_times' = {IF x.id = q.id THEN ApplySetTimeUpdates(x, q.body) ELSE x :
                                    x \in set_times}
                 /\ req' = [req EXCEPT ![r] = Response(q, 200, "")]
            ELSE /\ req' = [req EXCEPT ![r] =
                      serverErrorResponse(Log(IF outcome = "error" THEN Faulted(q) ELSE q,
                                              "error"), "error.message")]
                 /\ UNCHANGED set_times
  /\ UNCHANGED <<started, events, artists, stages, nextEventId, nextArtistId, nextStageId,
                 nextSetTimeId, user_events, collabVars, lineupVars, groupVars>>

\* ------------------------------------------- DELETE /set-times/:setTimeId
\* Lines 442-454: authentication.
StartDeleteSetTime(r) ==
  /\ Free(r)
  /\ started' = started + 1
  /\ \E token \in Users \cup {NoUser}, provider \in ProviderOutcomes, header \in {"null", API_KEY},
        setTimeId \in SetTimeIds :
       LET user == getAuthenticatedUser(token, provider)
           q == [Presented(NewRequest("deleteSetTime", user, setTimeId, NoBody), token, provider)
                   EXCEPT !.key = (header = API_KEY)]
       IN req' = [req EXCEPT ![r] =
            IF user = NoUser THEN unauthorizedResponse(getAuthenticatedUserCatch(Unread(q), token, provider))
            ELSE [q EXCEPT !.pc = "dt_settime"]]
  /\ UNCHANGED <<festivalVars, collabVars, lineupVars, groupVars>>

\* Lines 456-468: the set time must exist.
DeleteSetTimeCheckSetTime(r) ==
  /\ req[r].pc = "dt_settime"
  /\ \E outcome \in {"ok", "error"} :
       LET q == req[r] IN
       req' = [req EXCEPT ![r] =
         IF outcome = "error" \/ SetTimeRows(q.id) = {}
           THEN notFoundResponse(IF outcome = "error" THEN Faulted(q) ELSE q,
                                 "Set time not found")
         ELSE [q EXCEPT !.pc = "dt_stage",
                        !.row = (CHOOSE x \in SetTimeRows(q.id) : TRUE).stage_id]]
  /\ UNCHANGED <<started, festivalVars, collabVars, lineupVars, groupVars>>

\* Lines 470-479: the stage of the set time; no row is a 500.
DeleteSetTimeGetStage(r) ==
  /\ req[r].pc = "dt_stage"
  /\ \E outcome \in {"ok", "error"} :
       LET q == req[r] IN
       req' = [req EXCEPT ![r] =
         IF outcome = "error" \/ StageRows(q.row) = {}
           THEN serverErrorResponse(IF outcome = "error" THEN Faulted(q) ELSE q,
                                    "Error retrieving stage information")
         ELSE [q EXCEPT !.pc = "dt_event",
                        !.row = (CHOOSE s \in StageRows(q.row) : TRUE).event_id]]
  /\ UNCHANGED <<started, festivalVars, collabVars, lineupVars, groupVars>>

\* Lines 481-490: the event of that stage must be readable.
DeleteSetTimeCheckEvent(r) ==
  /\ req[r].pc = "dt_event"
  /\ \E outcome \in {"ok", "error"} :
       LET q == req[r] IN
       req' = [req EXCEPT ![r] =
         IF outcome = "error" \/ q.row \notin events
           THEN unauthorizedResponse(IF outcome = "error" THEN Faulted(q) ELSE q)
         ELSE [q EXCEPT !.pc = "dt_delete"]]
  /\ UNCHANGED <<started, festivalVars, collabVars, lineupVars, groupVars>>

\* Lines 492-506: the delete.
DeleteSetTimeWrite(r) ==
  /\ req[r].pc = "dt_delete"
  /\ \E outcome \in {"ok", "error"} :
       LET q == Wrote(req[r]) IN
       IF outcome = "error"
         THEN /\ req' = [req EXCEPT ![r] =
                   serverErrorResponse(Log(Faulted(q), "error"), "error.message")]
              /\ UNCHANGED <<set_times, artist_collaborations>>
         ELSE /\ DeleteSetTimeCascade(q.id)
              /\ req' = [req EXCEPT ![r] = Response(q, 200, "")]
  /\ UNCHANGED <<started, events, artists, stages, nextEventId, nextArtistId, nextStageId,
                 nextSetTimeId, user_events, nextCollabId, lineupVars, groupVars>>

\* ------------------------------------ DELETE /artist_collaborations/:id
\* Lines 705-717: authentication.
StartRemoveCollaboration(r) ==
  /\ Free(r)
  /\ started' = started + 1
  /\ \E token \in Users \cup {NoUser}, provider \in ProviderOutcomes, header \in {"null", API_KEY},
        collabId \in 1..(MaxCollabs + 1) :
       LET user == getAuthenticatedUser(token, provider)
           q == [Presented(NewRequest("removeCollaboration", user, collabId, NoBody), token, provider)
                   EXCEPT !.key = (header = API_KEY)]
       IN req' = [req EXCEPT ![r] =
            IF user = NoUser THEN unauthorizedResponse(getAuthenticatedUserCatch(Unread(q), token, provider))
            ELSE [q EXCEPT !.pc = "rc_collab"]]
  /\ UNCHANGED <<festivalVars, collabVars, lineupVars, groupVars>>

\* Lines 719-731: the collaboration must exist; its set_time_id is kept.
RemoveCollaborationCheckCollab(r) ==
  /\ req[r].pc = "rc_collab"
  /\ \E outcome \in {"ok", "error"} :
       LET q == req[r] IN
       req' = [req EXCEPT ![r] =
         IF outcome = "error" \/ CollaborationRows(q.id) = {}
           THEN notFoundResponse(IF outcome = "error" THEN Faulted(q) ELSE q,
                                 "Collaboration not found")
         ELSE [q EXCEPT !.pc = "rc_settime",
                        !.row = (CHOOSE c \in CollaborationRows(q.id) : TRUE).set_time_id]]
  /\ UNCHANGED <<started, festivalVars, collabVars, lineupVars, groupVars>>

\* Lines 733-745: the set time of the collaboration; its stage_id is kept.
RemoveCollaborationGetSetTime(r) ==
  /\ req[r].pc = "rc_settime"
  /\ \E outcome \in {"ok", "error"} :
       LET q == req[r] IN
       req' = [req EXCEPT ![r] =
         IF outcome = "error" \/ SetTimeRows(q.row) = {}
           THEN notFoundResponse(IF outcome = "error" THEN Faulted(q) ELSE q,
                                 "Associated set time not found")
         ELSE [q EXCEPT !.pc = "rc_stage",
                        !.row = (CHOOSE x \in SetTimeRows(q.row) : TRUE).stage_id]]
  /\ UNCHANGED <<started, festivalVars, collabVars, lineupVars, groupVars>>

\* Lines 747-756: the stage of that set time; no row is a 500.
RemoveCollaborationGetStage(r) ==
  /\ req[r].pc = "rc_stage"
  /\ \E outcome \in {"ok", "error"} :
       LET q == req[r] IN
       req' = [req EXCEPT ![r] =
         IF outcome = "error" \/ StageRows(q.row) = {}
           THEN serverErrorResponse(IF outcome = "error" THEN Faulted(q) ELSE q,
                                    "Error retrieving stage information")
         ELSE [q EXCEPT !.pc = "rc_event",
                        !.row = (CHOOSE s \in StageRows(q.row) : TRUE).event_id]]
  /\ UNCHANGED <<started, festivalVars, collabVars, lineupVars, groupVars>>

\* Lines 758-767: the event of that stage must be readable.
RemoveCollaborationCheckEvent(r) ==
  /\ req[r].pc = "rc_event"
  /\ \E outcome \in {"ok", "error"} :
       LET q == req[r] IN
       req' = [req EXCEPT ![r] =
         IF outcome = "error" \/ q.row \notin events
           THEN unauthorizedResponse(IF outcome = "error" THEN Faulted(q) ELSE q)
         ELSE [q EXCEPT !.pc = "rc_delete"]]
  /\ UNCHANGED <<started, festivalVars, collabVars, lineupVars, groupVars>>

\* Lines 769-783: the delete.
RemoveCollaborationDelete(r) ==
  /\ req[r].pc = "rc_delete"
  /\ \E outcome \in {"ok", "error"} :
       LET q == Wrote(req[r]) IN
       IF outcome = "error"
         THEN /\ req' = [req EXCEPT ![r] =
                   serverErrorResponse(Log(Faulted(q), "error"), "error.message")]
              /\ UNCHANGED artist_collaborations
         ELSE /\ artist_collaborations' = {c \in artist_collaborations : c.id # q.id}
              /\ req' = [req EXCEPT ![r] = Response(q, 200, "")]
  /\ UNCHANGED <<started, festivalVars, nextCollabId, lineupVars, groupVars>>

\* The store of the schedule: the two set times of stage 1, one of them
\* with a collaborator.
InitSchedule ==
  /\ events = {1}
  /\ artists = {1, 2}
  /\ stages = {[id |-> 1, event_id |-> 1]}
  /\ set_times = {[id |-> 1, stage_id |-> 1, artist_id |-> 1],
                  [id |-> 2, stage_id |-> 1, artist_id |-> 2]}
  /\ nextEventId = 2
  /\ nextArtistId = 3
  /\ nextStageId = 2
  /\ nextSetTimeId = 3
  /\ user_events = {}
  /\ artist_collaborations = {[id |-> 1, set_time_id |-> 1, artist_id |-> 2]}
  /\ nextCollabId = 2
  /\ lineups = {}
  /\ nextLineupId = 1
  /\ group_schedules = {}
  /\ group_members = {}
  /\ nextGroupId = 1
  /\ established = {}
  /\ started = 0
  /\ req = [r \in Slots |-> Idle]

\* The writes to the schedule of an event; a stage can be deleted under them.
NextSchedule ==
  \/ \E r \in Slots : StartCreateSetTime(r)
  \/ \E r \in Slots : CreateSetTimeCheckArtist(r)
  \/ \E r \in Slots : CreateSetTimeCheckStage(r)
  \/ \E r \in Slots : CreateSetTimeCheckEvent(r)
  \/ \E r \in Slots : CreateSetTimeInsert(r)
  \/ \E r \in Slots : StartUpdateSetTime(r)
  \/ \E r \in Slots : UpdateSetTimeCheckSetTime(r)
  \/ \E r \in Slots : UpdateSetTimeCheckNewStage(r)
  \/ \E r \in Slots : UpdateSetTimeGetStage(r)
  \/ \E r \in Slots : UpdateSetTimeCheckEvent(r)
  \/ \E r \in Slots : UpdateSetTimeWrite(r)
  \/ \E r \in Slots : StartDeleteSetTime(r)
  \/ \E r \in Slots : DeleteSetTimeCheckSetTime(r)
  \/ \E r \in Slots : DeleteSetTimeGetStage(r)
  \/ \E r \in Slots : DeleteSetTimeCheckEvent(r)
  \/ \E r \in Slots : DeleteSetTimeWrite(r)
  \/ \E r \in Slots : StartRemoveCollaboration(r)
  \/ \E r \in Slots : RemoveCollaborationCheckCollab(r)
  \/ \E r \in Slots : RemoveCollaborationGetSetTime(r)
  \/ \E r \in Slots : RemoveCollaborationGetStage(r)
  \/ \E r \in Slots : RemoveCollaborationCheckEvent(r)
  \/ \E r \in Slots : RemoveCollaborationDelete(r)
  \/ \E r \in Slots : StartDeleteStage(r)
  \/ \E r \in Slots : DeleteStageCheckStage(r)
  \/ \E r \in Slots : DeleteStageCheckEvent(r)
  \/ \E r \in Slots : DeleteStageWrite(r)
  \/ \E r \in Slots : Respond(r)

SpecSchedule == InitSchedule /\ [][NextSchedule]_vars

\* The deletion of an artist, in the first slot, next to the inserts of
\* lineup entries, in the other slots.  Artist 3 is referenced by nothing
\* at the start.
InitReferences ==
  /\ events = {1}
  /\ artists = {1, 2, 3}
  /\ stages = {[id |-> 1, event_id |-> 1]}
  /\ set_times = {[id |-> 1, stage_id |-> 1, artist_id |-> 1],
                  [id |-> 2, stage_id |-> 1, artist_id |-> 2]}
  /\ nextEventId = 2
  /\ nextArtistId = 4
  /\ nextStageId = 2
  /\ nextSetTimeId = 3
  /\ user_events = {}
  /\ artist_collaborations = {}
  /\ nextCollabId = 1
  /\ lineups = {}
  /\ nextLineupId = 1
  /\ group_schedules = {}
  /\ group_members = {}
  /\ nextGroupId = 1
  /\ established = {}
  /\ started = 0
  /\ req = [r \in Slots |-> Idle]

NextReferences ==
  \/ StartDeleteArtist(1)
  \/ DeleteArtistCheckExists(1)
  \/ DeleteArtistCountLineups(1)
  \/ DeleteArtistCountSetTimes(1)
  \/ DeleteArtistCountCollaborations(1)
  \/ DeleteArtistWrite(1)
  \/ \E r \in Slots \ {1} : StartAddLineupEntry(r, "null")
  \/ \E r \in Slots \ {1} : AddCheckEvent(r)
  \/ \E r \in Slots \ {1} : AddCheckArtist(r)
  \/ \E r \in Slots \ {1} : AddInsert(r)
  \/ \E r \in Slots \ {1} : StartCreateSetTime(r)
  \/ \E r \in Slots \ {1} : CreateSetTimeCheckArtist(r)
  \/ \E r \in Slots \ {1} : CreateSetTimeCheckStage(r)
  \/ \E r \in Slots \ {1} : CreateSetTimeCheckEvent(r)
  \/ \E r \in Slots \ {1} : CreateSetTimeInsert(r)
  \/ \E r \in Slots \ {1} : StartAddCollaboration(r, "null")
  \/ \E r \in Slots \ {1} : AddCollaborationCheckSetTime(r)
  \/ \E r \in Slots \ {1} : AddCollaborationCheckArtist(r)
  \/ \E r \in Slots \ {1} : AddCollaborationGetStage(r)
  \/ \E r \in Slots \ {1} : AddCollaborationCheckEvent(r)
  \/ \E r \in Slots \ {1} : AddCollaborationInsert(r)
  \/ \E r \in Slots : Respond(r)

SpecReferences == InitReferences /\ [][NextReferences]_vars

\* Updates of set times, one after another, in a festival of two events
\* with one stage each; both set times are on the stage of event 1.
InitMoves ==
  /\ events = {1, 2}
  /\ artists = {1, 2}
  /\ stages = {[id |-> 1, event_id |-> 1], [id |-> 2, event_id |-> 2]}
  /\ set_times = {[id |-> 1, stage_id |-> 1, artist_id |-> 1],
                  [id |-> 2, stage_id |-> 1, artist_id |-> 2]}
  /\ nextEventId = 3
  /\ nextArtistId = 3
  /\ nextStageId = 3
  /\ nextSetTimeId = 3
  /\ user_events = {}
  /\ artist_collaborations = {}
  /\ nextCollabId = 1
  /\ lineups = {}
  /\ nextLineupId = 1
  /\ group_schedules = {}
  /\ group_members = {}
  /\ nextGroupId = 1
  /\ established = {}
  /\ started = 0
  /\ req = [r \in Slots |-> Idle]

NextMoves ==
  \/ StartUpdateSetTime(1)
  \/ UpdateSetTimeCheckSetTime(1)
  \/ UpdateSetTimeCheckNewStage(1)
  \/ UpdateSetTimeGetStage(1)
  \/ UpdateSetTimeCheckEvent(1)
  \/ UpdateSetTimeWrite(1)
  \/ Respond(1)

SpecMoves == InitMoves /\ [][NextMoves]_vars

\* ================================================================ listings
ListPageValues == {<<>>, <<"2">>, <<"3">>}
ListPageSizeValues == {<<>>, <<"1">>, <<"2">>}
ArtistPageValues == ListPageValues \cup {<<"0">>, <<"", "2">>}
SearchValues == {<<>>, <<"1">>, <<"n">>, <<"N", "_", "2">>, <<"x">>}

\* The name of artist i in the catalogue of the listings: "n" and the two
\* decimal digits of i, so that the order by name is the order by id.
DigitChar(d) ==
  CASE d = 0 -> "0" [] d = 1 -> "1" [] d = 2 -> "2" [] d = 3 -> "3" [] d = 4 -> "4"
    [] d = 5 -> "5" [] d = 6 -> "6" [] d = 7 -> "7" [] d = 8 -> "8" [] d = 9 -> "9"

ArtistName(i) == <<"n", DigitChar((i \div 10) % 10), DigitChar(i % 10)>>

UpperCaseLetters ==
  <<"A", "B", "C", "D", "E", "F", "G", "H", "I", "J", "K", "L", "M",
    "N", "O", "P", "Q", "R", "S", "T", "U", "V", "W", "X", "Y", "Z">>
LowerCaseLetters ==
  <<"a", "b", "c", "d", "e", "f", "g", "h", "i", "j", "k", "l", "m",
    "n", "o", "p", "q", "r", "s", "t", "u", "v", "w", "x", "y", "z">>

\* string ILIKE pattern: "%" stands for any run of characters, "_" for any
\* one character, a backslash takes the next character literally, and
\* letters match without regard to case.
RECURSIVE like(_, _)
like(string, pattern) ==
  LET toLowerCase(c) ==
        IF \E k \in 1..26 : UpperCaseLetters[k] = c
        THEN LowerCaseLetters[CHOOSE k \in 1..26 : UpperCaseLetters[k] = c]
        ELSE c
  IN
  IF pattern = <<>> THEN string = <<>>
  ELSE IF Head(pattern) = "%"
    THEN like(string, Tail(pattern)) \/ (string # <<>> /\ like(Tail(string), pattern))
  ELSE IF string = <<>> THEN FALSE
  ELSE IF Head(pattern) = "_" THEN like(Tail(string), Tail(pattern))
  ELSE IF Head(pattern) = "\\" /\ Len(pattern) >= 2
    THEN /\ toLowerCase(Head(string)) = toLowerCase(pattern[2])
         /\ like(Tail(string), SubSeq(pattern, 3, Len(pattern)))
  ELSE /\ toLowerCase(Head(string)) = toLowerCase(Head(pattern))
       /\ like(Tail(string), Tail(pattern))

\* .ilike('name', `%${search}%`): the search string is pasted into the
\* pattern as it is, so its "%" and "_" are wild cards; the REST interface
\* of the store reads "*" as "%".
ilike(name, search) ==
  LET pattern == <<"%">> \o search \o <<"%">>
  IN like(name, [k \in 1..Len(pattern) |-> IF pattern[k] = "*" THEN "%" ELSE pattern[k]])

\* Lines 173-181 and 183-191: the artists the optional search keeps.
SearchedArtists(search) ==
  IF search = <<>> THEN artists ELSE {a \in artists : ilike(ArtistName(a), search)}

\* ------------------------------------------------------------ GET /artists
\* Lines 155-171: authentication, page and pageSize.
StartListArtists(r, header) ==
  /\ Free(r)
  /\ started' = started + 1
  /\ \E token \in {"u1", NoUser}, provider \in ProviderOutcomes, page \in ArtistPageValues,
        pageSize \in ListPageSizeValues, search \in SearchValues :
       LET user == getAuthenticatedUser(token, provider)
           q == Keyed(Presented(NewRequest("listArtists", user, 0,
                           [search |-> search,
                            page |-> parseInt(OrDefault(page, <<"1">>)),
                            pageSize |-> parseInt(OrDefault(pageSize, <<"2", "0">>))]), token, provider), header)
       IN req' = [req EXCEPT ![r] =
            IF user = NoUser THEN unauthorizedResponse(getAuthenticatedUserCatch(Unread(q), token, provider))
            ELSE [q EXCEPT !.pc = "la_count"]]
  /\ UNCHANGED <<festivalVars, collabVars, lineupVars, groupVars>>

\* Lines 183-198: the count of the searched artists (kept in field row).
ListArtistsCount(r) ==
  /\ req[r].pc = "la_count"
  /\ \E outcome \in {"ok", "error"} :
       LET q == req[r] IN
       req' = [req EXCEPT ![r] =
         IF outcome = "error"
           THEN serverErrorResponse(Log(Faulted(q), "countError"), "countError.message")
         ELSE [q EXCEPT !.pc = "la_page", !.row = Cardinality(SearchedArtists(q.body.search))]]
  /\ UNCHANGED <<started, festivalVars, collabVars, lineupVars, groupVars>>

\* Lines 200-221: the page of artists in the order of their names, and the
\* pagination object.
ListArtistsFetch(r) ==
  /\ req[r].pc = "la_page"
  /\ \E outcome \in {"ok", "error"} :
       LET q == req[r]
           page == q.body.page
           pageSize == q.body.pageSize
           totalCount == q.row
           data == range(Ascending(SearchedArtists(q.body.search)),
                         startRange(page, pageSize), endRange(page, pageSize))
       IN req' = [req EXCEPT ![r] =
            IF outcome = "error"
              THEN serverErrorResponse(Log(Faulted(q), "error"), "error.message")
            ELSE IF rangeNotSatisfiable(startRange(page, pageSize), endRange(page, pageSize))
              THEN serverErrorResponse(Log(q, "error"), "error.message")
            ELSE Response([q EXCEPT !.data =
                   [rows |-> data,
                    pagination |->
                      [page |-> page, pageSize |-> pageSize, totalCount |-> totalCount,
                       totalPages |-> IF totalCount # 0
                                        THEN MathCeilOfQuotient(totalCount, pageSize)
                                        ELSE Finite(0)]]], 200, "")]
  /\ UNCHANGED <<started, festivalVars, collabVars, lineupVars, groupVars>>

\* ------------------------------------------------------ GET /group-schedules
GroupPageValues == ListPageValues \cup {<<"0">>, <<"x">>, <<"-", "1">>}
EventIdValues == {<<>>, <<"1">>, <<"2">>, <<"0", "1">>}

\* Number.prototype.toString() of an integer n >= 0.
RECURSIVE toString(_)
toString(n) == IF n < 10 THEN <<DigitChar(n)>> ELSE toString(n \div 10) \o <<DigitChar(n % 10)>>

\* Faulty variant: duplicates are kept.
uniqueGroupsKeepingAll(allGroups) == allGroups

\* Array.from(new Map(allGroups.map(group => [group.id, group])).values()):
\* one entry per id, at the position of the first row object with that id,
\* and it is the last row object with that id.
uniqueGroups(allGroups) ==
  LET first(k) == \A j \in 1..(k - 1) : allGroups[j].id # allGroups[k].id
      last(k) == CHOOSE j \in k..Len(allGroups) :
                   /\ allGroups[j].id = allGroups[k].id
                   /\ \A i \in (j + 1)..Len(allGroups) : allGroups[i].id # allGroups[k].id
      kept == SelectSeq([k \in 1..Len(allGroups) |-> k], first)
  IN [i \in 1..Len(kept) |-> allGroups[last(kept[i])]]

\* uniqueGroups.filter(group => group.event_id.toString() === eventId), on
\* the row objects the two selects returned.
filteredGroups(groups, eventId) ==
  IF eventId = <<>> THEN groups
  ELSE SelectSeq(groups, LAMBDA group : toString(group.event_id) = eventId)

\* Lines 124-141: authentication, the query parameters.
StartListGroupSchedules(r, header) ==
  /\ Free(r)
  /\ started' = started + 1
  /\ \E token \in Users \cup {NoUser}, provider \in ProviderOutcomes, page \in GroupPageValues,
        pageSize \in ListPageSizeValues, eventId \in EventIdValues :
       LET user == getAuthenticatedUser(token, provider)
           q == Keyed(Presented(NewRequest("listGroupSchedules", user, 0,
                           [eventId |-> eventId,
                            page |-> parseInt(OrDefault(page, <<"1">>)),
                            pageSize |-> parseInt(OrDefault(pageSize, <<"2", "0">>))]), token, provider), header)
       IN req' = [req EXCEPT ![r] =
            IF user = NoUser THEN unauthorizedResponse(getAuthenticatedUserCatch(Unread(q), token, provider))
            ELSE [q EXCEPT !.pc = "lg_created"]]
  /\ UNCHANGED <<festivalVars, collabVars, lineupVars, groupVars>>

\* Lines 143-166: the rows of the groups the user created (kept in row).
\* They come latest first by created_at, a column the model does not keep
\* and that PUT /group-schedules/:id can write, as it can write the id: they
\* are taken in any order.
ListGroupSchedulesCreated(r) ==
  /\ req[r].pc = "lg_created"
  /\ \E outcome \in {"ok", "error"} :
     \E createdGroups \in Orderings({g \in group_schedules : g.created_by = req[r].user}) :
       LET q == req[r] IN
       req' = [req EXCEPT ![r] =
         IF outcome = "error"
           THEN serverErrorResponse(Log(Faulted(q), "createdError"), "createdError.message")
         ELSE [q EXCEPT !.pc = "lg_member",
                 !.row = createdGroups]]
  /\ UNCHANGED <<started, festivalVars, collabVars, lineupVars, groupVars>>

\* The rows of the groups that the memberships of a user are joined to
\* (.filter(Boolean) drops a membership whose group is not returned).
MemberGroups(user) ==
  {g \in group_schedules :
     \E m \in group_members : m.user_id = user /\ m.group_id = g.id}

\* Lines 168-225: the groups the user is a member of, the two lists joined,
\* duplicates removed, the event filter, the slice and the pagination object.
\* The memberships come latest first by their own created_at, which the
\* model does not keep: they are taken in any order.
ListGroupSchedulesMember(r) ==
  /\ req[r].pc = "lg_member"
  /\ \E outcome \in {"ok", "error"} :
     \E memberGroups \in Orderings(MemberGroups(req[r].user)) :
       LET q == req[r]
           page == q.body.page
           pageSize == q.body.pageSize
           allGroups == q.row \o memberGroups
           filtered == filteredGroups(uniqueGroups(allGroups), q.body.eventId)
           totalCount == Len(filtered)
           paginatedGroups == slice(filtered, startRange(page, pageSize),
                                    IF endRange(page, pageSize) = NaN THEN NaN
                                    ELSE Finite(endRange(page, pageSize)[1] + 1))
       IN req' = [req EXCEPT ![r] =
            IF outcome = "error"
              THEN serverErrorResponse(Log(Faulted(q), "memberError"), "memberError.message")
            ELSE Response([q EXCEPT !.data =
                   [rows |-> paginatedGroups,
                    pagination |->
                      [page |-> page, pageSize |-> pageSize, totalCount |-> totalCount,
                       totalPages |-> MathCeilOfQuotient(totalCount, pageSize)]]], 200, "")]
  /\ UNCHANGED <<started, festivalVars, collabVars, lineupVars, groupVars>>

\* The tables of the listings: MaxListed artists at most, as many groups,
\* two groups in three created by u1, the others created by u2 and joined
\* by u1.
ListedGroup(i) ==
  [id |-> i, name |-> "Crew", event_id |-> IF i % 2 = 0 THEN 2 ELSE 1,
   created_by |-> IF i % 3 = 0 THEN "u2" ELSE "u1"]

InitListings ==
  /\ \E n \in 0..MaxListed :
       /\ artists = 1..n
       /\ nextArtistId = n + 1
       /\ group_schedules = {ListedGroup(i) : i \in 1..n}
       /\ group_members = {CreatorMember(i, ListedGroup(i).created_by) : i \in 1..n}
            \cup {[group_id |-> i, user_id |-> "u1", is_admin |-> FALSE,
                   status |-> "accepted"] : i \in {j \in 1..n : j % 3 = 0}}
       /\ nextGroupId = n + 1
  /\ events = {1, 2}
  /\ stages = {}
  /\ set_times = {}
  /\ lineups = {}
  /\ artist_collaborations = {}
  /\ user_events = {}
  /\ established = {}
  /\ nextEventId = 3
  /\ nextStageId = 1
  /\ nextSetTimeId = 1
  /\ nextLineupId = 1
  /\ nextCollabId = 1
  /\ started = 0
  /\ req = [r \in Slots |-> Idle]

\* The listings in slot 1, and in slot 2 the requests that create and
\* delete groups and the memberships of their creators.
NextListings ==
  \/ ~ResponseSent /\ StartListArtists(1, "null")
  \/ ~ResponseSent /\ ListArtistsCount(1)
  \/ ~ResponseSent /\ ListArtistsFetch(1)
  \/ ~ResponseSent /\ StartListGroupSchedules(1, "null")
  \/ ~ResponseSent /\ ListGroupSchedulesCreated(1)
  \/ ~ResponseSent /\ ListGroupSchedulesMember(1)
  \/ ~ResponseSent /\ StartListEvents(1)
  \/ ~ResponseSent /\ ListEventsFetch(1)
  \/ ~ResponseSent /\ ListEventsUserEvents(1)
  \/ ~ResponseSent /\ StartCreateGroupSchedule(2, "null")
  \/ ~ResponseSent /\ CreateInsertGroup(2)
  \/ ~ResponseSent /\ CreateInsertMember(2)
  \/ ~ResponseSent /\ CreateCleanup(2)
  \/ ~ResponseSent /\ StartDeleteGroupSchedule(2, "null")
  \/ ~ResponseSent /\ DeleteCheckCreator(2)
  \/ ~ResponseSent /\ DeleteWrite(2)
  \/ \E r \in Slots : Respond(r)

SpecListings == InitListings /\ [][NextListings]_vars

\* ================================================================= routing
\* A path is the sequence of the characters of url.pathname, a segment the
\* sequence of the characters between two slashes.
Methods == {"GET", "POST", "PUT", "DELETE"}

Slash == "/"

S_events == <<"e", "v", "e", "n", "t", "s">>
S_lineups == <<"l", "i", "n", "e", "u", "p", "s">>
S_lineup == <<"l", "i", "n", "e", "u", "p">>
S_schedule == <<"s", "c", "h", "e", "d", "u", "l", "e">>
S_set_dash_times == <<"s", "e", "t", "-", "t", "i", "m", "e", "s">>
S_set_times == <<"s", "e", "t", "_", "t", "i", "m", "e", "s">>
S_stages == <<"s", "t", "a", "g", "e", "s">>
S_artists == <<"a", "r", "t", "i", "s", "t", "s">>
S_group_dash_schedules == <<"g", "r", "o", "u", "p", "-", "s", "c", "h", "e", "d", "u", "l", "e", "s">>
S_artist_collaborations == <<"a", "r", "t", "i", "s", "t", "_", "c", "o", "l", "l", "a", "b", "o", "r", "a", "t", "i", "o", "n", "s">>
S_collaborations == <<"c", "o", "l", "l", "a", "b", "o", "r", "a", "t", "i", "o", "n", "s">>
S_functions_v1 == <<"/", "f", "u", "n", "c", "t", "i", "o", "n", "s", "/", "v", "1">>
S_localhost == <<"l", "o", "c", "a", "l", "h", "o", "s", "t">>
S_1 == <<"1">>
S_12 == <<"1", "2">>
S_abc == <<"a", "b", "c">>
S_1a == <<"1", "a">>
S_Infinity == <<"I", "n", "f", "i", "n", "i", "t", "y">>
S_empty == <<>>
S_1e3 == <<"1", "e", "3">>

\* The value null of an extractor: no sequence of characters equals it.
null == <<"null">>

\* A value is truthy when it is neither null nor the empty string.
Truthy(v) == v # null /\ v # <<>>

\* String.prototype.split('/')
RECURSIVE split(_)
split(path) ==
  IF \A k \in 1..Len(path) : path[k] # Slash THEN <<path>>
  ELSE LET first == CHOOSE k \in 1..Len(path) :
                      path[k] = Slash /\ \A j \in 1..(k - 1) : path[j] # Slash
       IN <<SubSeq(path, 1, first - 1)>> \o split(SubSeq(path, first + 1, Len(path)))

\* String.prototype.includes(part)
includes(path, part) ==
  \E k \in 0..(Len(path) - Len(part)) : SubSeq(path, k + 1, k + Len(part)) = part

\* String.prototype.startsWith(part)
startsWith(path, part) ==
  Len(part) <= Len(path) /\ SubSeq(path, 1, Len(part)) = part

\* isNaN(Number(id)): Number trims the white space of both ends; the empty
\* string is 0, a non-decimal integer literal (0x, 0o or 0b and digits of
\* that radix, unsigned) or a signed decimal literal (Infinity, or digits
\* with an optional fraction and exponent, or a fraction that starts with
\* the point) is its value, every other string is NaN.
NumberIsNaN(id) ==
  LET trimmed == TrimEnd(TrimStart(id))
      IsExponentPart(s) ==
        \/ s = <<>>
        \/ /\ Head(s) \in {"e", "E"}
           /\ LET signed == Len(s) >= 2 /\ s[2] \in {"+", "-"}
                  digits == SubSeq(s, IF signed THEN 3 ELSE 2, Len(s))
              IN digits # <<>> /\ LeadingDigits(digits, 10) = Len(digits)
      IsStrUnsignedDecimalLiteral(s) ==
        \/ s = S_Infinity
        \/ LET whole == LeadingDigits(s, 10)
               afterWhole == SubSeq(s, whole + 1, Len(s))
               point == afterWhole # <<>> /\ Head(afterWhole) = "."
               afterPoint == IF point THEN Tail(afterWhole) ELSE afterWhole
               fraction == IF point THEN LeadingDigits(afterPoint, 10) ELSE 0
           IN /\ whole > 0 \/ fraction > 0
              /\ IsExponentPart(SubSeq(afterPoint, fraction + 1, Len(afterPoint)))
      IsNonDecimalIntegerLiteral(s) ==
        /\ Len(s) >= 3
        /\ s[1] = "0"
        /\ LET radix == CASE s[2] \in {"x", "X"} -> 16 [] s[2] \in {"o", "O"} -> 8
                          [] s[2] \in {"b", "B"} -> 2 [] OTHER -> 0
           IN LeadingDigits(SubSeq(s, 3, Len(s)), radix) = Len(s) - 2
  IN ~ \/ trimmed = <<>>
       \/ IsNonDecimalIntegerLiteral(trimmed)
       \/ IsStrUnsignedDecimalLiteral(
            IF Head(trimmed) \in {"+", "-"} THEN Tail(trimmed) ELSE trimmed)

\* pathParts[i + 1] for the first index i that a loop over pathParts accepts.
FirstAccepted(pathParts, last, Accepts(_)) ==
  LET accepted == {i \in 1..last : Accepts(i)}
  IN IF accepted = {} THEN null
     ELSE pathParts[(CHOOSE i \in accepted : \A j \in accepted : i <= j) + 1]

\* The path "/" s1 "/" s2 ... of a sequence of segments.
RECURSIVE PathOf(_)
PathOf(segments) ==
  IF segments = <<>> THEN <<>>
  ELSE <<Slash>> \o Head(segments) \o PathOf(Tail(segments))

\* The sequences of 1..MaxSegments segments of an alphabet, as paths.
RECURSIVE SegmentSeqs(_, _)
SegmentSeqs(alphabet, n) ==
  IF n = 0 THEN {<<>>}
  ELSE LET shorter == SegmentSeqs(alphabet, n - 1)
       IN shorter \cup {Append(s, a) : s \in {x \in shorter : Len(x) = n - 1}, a \in alphabet}

PathsOver(alphabet) == {PathOf(s) : s \in SegmentSeqs(alphabet, MaxSegments) \ {<<>>}}

IdSegments == {S_1, S_12, S_abc, S_1a, S_empty}

\* What a router hands on: the handler and the id the handler reads from
\* the URL of the request.
Dispatch(handler, id) == [handler |-> handler, id |-> id]

methodNotAllowed == Dispatch("methodNotAllowedResponse", null)

\* The catch of a router: serverErrorResponse("Internal server error").
internalServerError == Dispatch("serverErrorResponse", null)

\* -------------------------------------------------------- lineups function
\* Lines 536-546.
lineups_getEventIdFromUrl(pathname) ==
  LET pathParts == split(pathname)
  IN FirstAccepted(pathParts, Len(pathParts) - 2,
       LAMBDA i : /\ pathParts[i] \in {S_events, S_lineups}
                  /\ pathParts[i + 2] = S_lineup)

\* Lines 549-558.
getLineupEntryIdFromUrl(pathname) ==
  LET pathParts == split(pathname)
  IN FirstAccepted(pathParts, Len(pathParts) - 1, LAMBDA i : pathParts[i] = S_lineups)

\* Lines 767-804: the handler the request is given to, with the id that
\* handler extracts from the same URL (lines 649 and 714).
lineups_serve(method, path) ==
  LET eventId == lineups_getEventIdFromUrl(path)
      entryId == getLineupEntryIdFromUrl(path)
      isEventLineupRoute == includes(path, <<Slash>> \o S_lineup) /\ Truthy(eventId)
      isLineupPostRoute == path = <<Slash>> \o S_lineups \/ path = <<Slash>> \o S_lineups \o <<Slash>>
      isLineupEntryRoute == includes(path, <<Slash>> \o S_lineups \o <<Slash>>) /\ Truthy(entryId)
  IN IF isLineupPostRoute /\ method = "POST" THEN Dispatch("handleAddLineupEntry", null)
     ELSE IF isEventLineupRoute /\ method = "GET" THEN Dispatch("handleListLineup", eventId)
     ELSE IF isLineupEntryRoute /\ method = "DELETE"
       THEN Dispatch("handleRemoveLineupEntry", entryId)
     ELSE methodNotAllowed

LineupsPaths == PathsOver({S_lineups, S_events, S_lineup} \cup IdSegments)

\* ------------------------------------------------------ set-times function
\* Faulty variant: only the shape /events/{id}/schedule is recognised.
setTimes_getEventIdFromUrlEventsOnly(pathname) ==
  LET pathParts == split(pathname)
  IN FirstAccepted(pathParts, Len(pathParts) - 2,
       LAMBDA i : pathParts[i] = S_events /\ pathParts[i + 2] = S_schedule)

\* Lines 92-102.
setTimes_getEventIdFromUrl(pathname) ==
  LET pathParts == split(pathname)
  IN FirstAccepted(pathParts, Len(pathParts) - 2,
       LAMBDA i : /\ pathParts[i] \in {S_events, S_set_dash_times}
                  /\ pathParts[i + 2] = S_schedule)

\* Lines 105-114.
getSetTimeIdFromUrl(pathname) ==
  LET pathParts == split(pathname)
  IN FirstAccepted(pathParts, Len(pathParts) - 1,
       LAMBDA i : pathParts[i] \in {S_set_times, S_set_dash_times})

\* Lines 117-126.
getCollaborationIdFromUrl(pathname) ==
  LET pathParts == split(pathname)
  IN FirstAccepted(pathParts, Len(pathParts) - 1,
       LAMBDA i : pathParts[i] = S_artist_collaborations)

\* Lines 791-845.
setTimes_serve(method, path) ==
  LET eventId == setTimes_getEventIdFromUrl(path)
      setTimeId == getSetTimeIdFromUrl(path)
      collabId == getCollaborationIdFromUrl(path)
      isScheduleRoute == includes(path, <<Slash>> \o S_schedule) /\ Truthy(eventId)
      isSetTimesPostRoute ==
        path \in {<<Slash>> \o S_set_times, <<Slash>> \o S_set_times \o <<Slash>>,
                  <<Slash>> \o S_set_dash_times, <<Slash>> \o S_set_dash_times \o <<Slash>>}
      isSetTimeRoute ==
        /\ \/ includes(path, <<Slash>> \o S_set_times \o <<Slash>>)
           \/ includes(path, <<Slash>> \o S_set_dash_times \o <<Slash>>)
        /\ Truthy(setTimeId)
        /\ ~includes(path, <<Slash>> \o S_collaborations)
        /\ ~includes(path, <<Slash>> \o S_schedule)
      isCollaborationsPostRoute ==
        /\ includes(path, <<Slash>> \o S_collaborations)
        /\ Truthy(setTimeId)
        /\ ~includes(path, S_artist_collaborations)
      isCollaborationsGetRoute == isCollaborationsPostRoute
      isArtistCollaborationsRoute ==
        includes(path, <<Slash>> \o S_artist_collaborations \o <<Slash>>) /\ Truthy(collabId)
  IN IF isSetTimesPostRoute /\ method = "POST" THEN Dispatch("handleCreateSetTime", null)
     ELSE IF isScheduleRoute /\ method = "GET" THEN Dispatch("handleListSetTimes", eventId)
     ELSE IF isSetTimeRoute /\ method = "PUT" THEN Dispatch("handleUpdateSetTime", setTimeId)
     ELSE IF isSetTimeRoute /\ method = "DELETE" THEN Dispatch("handleDeleteSetTime", setTimeId)
     ELSE IF isCollaborationsPostRoute /\ method = "POST"
       THEN Dispatch("handleAddCollaboration", setTimeId)
     ELSE IF isCollaborationsGetRoute /\ method = "GET"
       THEN Dispatch("handleListCollaborations", setTimeId)
     ELSE IF isArtistCollaborationsRoute /\ method = "DELETE"
       THEN Dispatch("handleRemoveCollaboration", collabId)
     ELSE methodNotAllowed

SetTimesPaths ==
  PathsOver({S_set_dash_times, S_set_times, S_events, S_schedule, S_collaborations,
             S_artist_collaborations} \cup IdSegments)

\* --------------------------------------------------------- stages function
\* Lines 84-93.
stages_getEventIdFromUrl(pathname) ==
  LET pathParts == split(pathname)
  IN FirstAccepted(pathParts, Len(pathParts) - 2,
       LAMBDA i : pathParts[i] = S_events /\ pathParts[i + 2] = S_stages)

\* Lines 96-105.
getStageIdFromUrl(pathname) ==
  LET pathParts == split(pathname)
  IN FirstAccepted(pathParts, Len(pathParts) - 1,
       LAMBDA i : pathParts[i] = S_stages /\ pathParts[i + 1] # S_events)

\* Lines 362-402.
stages_serve(method, path) ==
  LET eventId == stages_getEventIdFromUrl(path)
      stageId == getStageIdFromUrl(path)
  IN IF Truthy(eventId)
       THEN IF method = "POST" THEN Dispatch("handleCreateStage", eventId)
            ELSE IF method = "GET" THEN Dispatch("handleListStages", eventId)
            ELSE methodNotAllowed
     ELSE IF Truthy(stageId)
       THEN IF method = "PUT" THEN Dispatch("handleUpdateStage", stageId)
            ELSE IF method = "DELETE" THEN Dispatch("handleDeleteStage", stageId)
            ELSE methodNotAllowed
     ELSE methodNotAllowed

StagesPaths == PathsOver({S_stages, S_events} \cup IdSegments)

\* -------------------------------------------------------- artists function
\* Lines 90-104.
getArtistIdFromUrl(pathname) ==
  LET pathParts == split(pathname)
  IN FirstAccepted(pathParts, Len(pathParts) - 1,
       LAMBDA i : /\ pathParts[i] = S_artists
                  /\ Truthy(pathParts[i + 1])
                  /\ ~NumberIsNaN(pathParts[i + 1]))

\* Lines 452-491.
artists_serve(method, path) ==
  LET artistId == getArtistIdFromUrl(path)
      isArtistsBaseRoute == path \in {<<Slash>> \o S_artists, <<Slash>> \o S_artists \o <<Slash>>}
      isArtistSpecificRoute == artistId # null
  IN IF isArtistsBaseRoute /\ method = "POST" THEN Dispatch("handleCreateArtist", null)
     ELSE IF isArtistsBaseRoute /\ method = "GET" THEN Dispatch("handleListArtists", null)
     ELSE IF isArtistSpecificRoute /\ method = "GET" THEN Dispatch("handleGetArtist", artistId)
     ELSE IF isArtistSpecificRoute /\ method = "PUT"
       THEN Dispatch("handleUpdateArtist", artistId)
     ELSE IF isArtistSpecificRoute /\ method = "DELETE"
       THEN Dispatch("handleDeleteArtist", artistId)
     ELSE methodNotAllowed

ArtistsPaths == PathsOver({S_artists, S_Infinity, S_1e3} \cup IdSegments)

\* ------------------------------------------------ group-schedules function
\* Lines 107-121.
getGroupIdFromUrl(pathname) ==
  LET pathParts == split(pathname)
  IN FirstAccepted(pathParts, Len(pathParts) - 1,
       LAMBDA i : /\ pathParts[i] = S_group_dash_schedules
                  /\ Truthy(pathParts[i + 1])
                  /\ ~NumberIsNaN(pathParts[i + 1]))

\* Lines 590-622.
groupSchedules_serve(method, path) ==
  LET groupId == getGroupIdFromUrl(path)
      isBaseRoute == path \in {<<Slash>> \o S_group_dash_schedules,
                               <<Slash>> \o S_group_dash_schedules \o <<Slash>>}
      isSpecificRoute == groupId # null
  IN IF isBaseRoute /\ method = "GET" THEN Dispatch("handleListGroupSchedules", null)
     ELSE IF isBaseRoute /\ method = "POST" THEN Dispatch("handleCreateGroupSchedule", null)
     ELSE IF isSpecificRoute /\ method = "GET"
       THEN Dispatch("handleGetGroupSchedule", groupId)
     ELSE IF isSpecificRoute /\ method = "PUT"
       THEN Dispatch("handleUpdateGroupSchedule", groupId)
     ELSE IF isSpecificRoute /\ method = "DELETE"
       THEN Dispatch("handleDeleteGroupSchedule", groupId)
     ELSE methodNotAllowed

GroupSchedulesPaths == PathsOver({S_group_dash_schedules, S_1e3} \cup IdSegments)

\* --------------------------------------------------------- events function
\* Lines 91-98.
events_getEventIdFromUrl(pathname) ==
  LET pathParts == split(pathname)
  IN IF Len(pathParts) >= 3 THEN pathParts[3] ELSE null

\* path.replace(/^\/functions\/v1/, '')
normalizedPath(path) ==
  IF startsWith(path, S_functions_v1)
    THEN SubSeq(path, Len(S_functions_v1) + 1, Len(path))
  ELSE path

\* -------------------------------------------- new URL(`http://localhost...`)
\* The printable characters of ASCII in the order of their code points,
\* U+0020 to U+007E; the grave accent, which a string of this module cannot
\* hold and a pathname writes %60, is written by its name.
AsciiPrintable ==
  <<" ", "!", "\"", "#", "$", "%", "&", "'", "(", ")", "*", "+", ",", "-", ".", "/",
    "0", "1", "2", "3", "4", "5", "6", "7", "8", "9", ":", ";", "<", "=", ">", "?",
    "@", "A", "B", "C", "D", "E", "F", "G", "H", "I", "J", "K", "L", "M", "N", "O",
    "P", "Q", "R", "S", "T", "U", "V", "W", "X", "Y", "Z", "[", "\\", "]", "^", "_",
    "U+0060", "a", "b", "c", "d", "e", "f", "g", "h", "i", "j", "k", "l", "m", "n", "o",
    "p", "q", "r", "s", "t", "u", "v", "w", "x", "y", "z", "{", "|", "}", "~">>

\* The code points of a string; 128 stands for a character that is not
\* printable ASCII.
codePoints(s) ==
  [k \in 1..Len(s) |->
     IF \E i \in 1..Len(AsciiPrintable) : AsciiPrintable[i] = s[k]
       THEN 31 + (CHOOSE i \in 1..Len(AsciiPrintable) : AsciiPrintable[i] = s[k])
     ELSE 128]

\* The value of a code point as a hexadecimal digit, -1 when it is none.
hexValue(c) ==
  IF c >= 48 /\ c <= 57 THEN c - 48
  ELSE IF c >= 97 /\ c <= 102 THEN c - 87
  ELSE IF c >= 65 /\ c <= 70 THEN c - 55
  ELSE 0 - 1

isDigitOf(c, radix) == hexValue(c) >= 0 /\ hexValue(c) < radix

allDigitsOf(s, radix) == \A k \in 1..Len(s) : isDigitOf(s[k], radix)

\* The value of a string of digits of the radix, no greater than limit.
RECURSIVE valueUpTo(_, _, _)
valueUpTo(digits, radix, limit) ==
  IF digits = <<>> THEN 0
  ELSE LET v == valueUpTo(SubSeq(digits, 1, Len(digits) - 1), radix, limit) * radix
                  + hexValue(digits[Len(digits)])
       IN IF v > limit THEN limit ELSE v

\* The value of a string of digits of the radix as <<high, low>>, high * 65536
\* + low, with high no greater than 65536 (the value is 2^32 or more).
RECURSIVE valueIn16Bits(_, _)
valueIn16Bits(digits, radix) ==
  IF digits = <<>> THEN <<0, 0>>
  ELSE LET front == valueIn16Bits(SubSeq(digits, 1, Len(digits) - 1), radix)
           low == front[2] * radix + hexValue(digits[Len(digits)])
           high == front[1] * radix + (low \div 65536)
       IN <<IF high > 65536 THEN 65536 ELSE high, low % 65536>>

\* A string strictly split on a code point.
RECURSIVE splitOn(_, _)
splitOn(s, delimiter) ==
  IF \A k \in 1..Len(s) : s[k] # delimiter THEN <<s>>
  ELSE LET first == CHOOSE k \in 1..Len(s) :
                      s[k] = delimiter /\ \A j \in 1..(k - 1) : s[j] # delimiter
       IN <<SubSeq(s, 1, first - 1)>> \o splitOn(SubSeq(s, first + 1, Len(s)), delimiter)

\* The bytes of a percent-decoded string: "%" and two hexadecimal digits
\* are the byte they write.
RECURSIVE percentDecode(_)
percentDecode(s) ==
  IF s = <<>> THEN <<>>
  ELSE IF Head(s) = 37 /\ Len(s) >= 3 /\ isDigitOf(s[2], 16) /\ isDigitOf(s[3], 16)
    THEN <<16 * hexValue(s[2]) + hexValue(s[3])>> \o percentDecode(SubSeq(s, 4, Len(s)))
  ELSE <<Head(s)>> \o percentDecode(Tail(s))

\* The forbidden domain code points: the C0 controls, space, "#", "%", "/",
\* ":", "<", ">", "?", "@", "[", "\", "]", "^", "|" and U+007F.
ForbiddenDomainCodePoints ==
  (0..32) \cup {35, 37, 47, 58, 60, 62, 63, 64, 91, 92, 93, 94, 124, 127}

\* The IPv4 number parser accepts the string: decimal digits, octal digits
\* after "0", hexadecimal digits after "0x" (none is 0).
ipv4NumberRadix(part) ==
  IF Len(part) >= 2 /\ part[1] = 48 /\ part[2] \in {120, 88} THEN 16
  ELSE IF Len(part) >= 2 /\ part[1] = 48 THEN 8
  ELSE 10

ipv4NumberDigits(part) ==
  SubSeq(part, CASE ipv4NumberRadix(part) = 16 -> 3 [] ipv4NumberRadix(part) = 8 -> 2
                 [] OTHER -> 1, Len(part))

isIpv4Number(part) ==
  part # <<>> /\ allDigitsOf(ipv4NumberDigits(part), ipv4NumberRadix(part))

\* The parts of a domain between its dots, without a last empty part.
ipv4Parts(domain) ==
  LET parts == splitOn(domain, 46)
  IN IF parts[Len(parts)] = <<>> /\ Len(parts) > 1 THEN SubSeq(parts, 1, Len(parts) - 1)
     ELSE parts

\* The ends-in-a-number checker.
endsInANumber(domain) ==
  LET parts == ipv4Parts(domain)
      last == parts[Len(parts)]
  IN last # <<>> /\ (allDigitsOf(last, 10) \/ isIpv4Number(last))

\* The IPv4 parser returns an address: four parts at most, each a number,
\* each but the last 255 at most, the last less than 256^(5 - parts).
ipv4Parser(domain) ==
  LET parts == ipv4Parts(domain)
      number(k) == valueIn16Bits(ipv4NumberDigits(parts[k]), ipv4NumberRadix(parts[k]))
      above255(n) == n[1] >= 1 \/ n[2] >= 256
  IN /\ Len(parts) <= 4
     /\ \A k \in 1..Len(parts) : isIpv4Number(parts[k])
     /\ \A k \in 1..(Len(parts) - 1) : ~above255(number(k))
     /\ LET last == number(Len(parts))
        IN CASE Len(parts) = 1 -> last[1] < 65536
             [] Len(parts) = 2 -> last[1] < 256
             [] Len(parts) = 3 -> last[1] < 1
             [] OTHER -> ~above255(last)

\* The IPv4 address that ends an IPv6 address: four decimal numbers of 255
\* at most, none written with a leading zero.
ipv4InIpv6(s) ==
  LET parts == splitOn(s, 46)
  IN /\ Len(parts) = 4
     /\ \A k \in 1..4 :
          /\ parts[k] # <<>>
          /\ allDigitsOf(parts[k], 10)
          /\ Len(parts[k]) = 1 \/ parts[k][1] # 48
          /\ valueUpTo(parts[k], 10, 256) <= 255

\* The IPv6 parser returns an address, from the piece at pieceIndex on:
\* pieces of one to four hexadecimal digits between colons, eight of them,
\* or fewer and one "::".
RECURSIVE ipv6Pieces(_, _, _)
ipv6Pieces(s, pieceIndex, compress) ==
  IF s = <<>> THEN compress \/ pieceIndex = 8
  ELSE IF pieceIndex = 8 THEN FALSE
  ELSE IF Head(s) = 58 THEN ~compress /\ ipv6Pieces(Tail(s), pieceIndex + 1, TRUE)
  ELSE LET digits == {n \in 0..4 : n <= Len(s) /\ \A k \in 1..n : isDigitOf(s[k], 16)}
           length == CHOOSE n \in digits : \A m \in digits : m <= n
           rest == SubSeq(s, length + 1, Len(s))
       IN IF rest = <<>> THEN compress \/ pieceIndex + 1 = 8
          ELSE IF Head(rest) = 46
            THEN /\ length > 0
                 /\ pieceIndex <= 6
                 /\ ipv4InIpv6(s)
                 /\ compress \/ pieceIndex + 2 = 8
          ELSE IF Head(rest) = 58
            THEN Tail(rest) # <<>> /\ ipv6Pieces(Tail(rest), pieceIndex + 1, compress)
          ELSE FALSE

ipv6Parser(s) ==
  IF s # <<>> /\ Head(s) = 58
    THEN Len(s) >= 2 /\ s[2] = 58 /\ ipv6Pieces(SubSeq(s, 3, Len(s)), 1, TRUE)
  ELSE ipv6Pieces(s, 0, FALSE)

\* The host parser on the text of a host that is not empty: the outcomes it
\* may have, TRUE for a host and FALSE for failure.  An address in brackets
\* is an IPv6 address.  Any other text is percent-decoded and taken to lower
\* case; a forbidden domain code point fails, and text that ends in a number
\* is an IPv4 address.  A byte that is not ASCII and a label that begins
\* with "xn--" are decided by the Unicode tables of the build: either
\* outcome.
hostParser(input) ==
  IF Head(input) = 91
    THEN {input[Len(input)] = 93 /\ ipv6Parser(SubSeq(input, 2, Len(input) - 1))}
  ELSE LET decoded == percentDecode(input)
           domain == [k \in 1..Len(decoded) |->
                        IF decoded[k] >= 65 /\ decoded[k] <= 90 THEN decoded[k] + 32
                        ELSE decoded[k]]
           labels == splitOn(domain, 46)
       IN IF \E k \in 1..Len(domain) : domain[k] \in ForbiddenDomainCodePoints THEN {FALSE}
          ELSE IF \/ \E k \in 1..Len(domain) : domain[k] >= 128
                  \/ \E k \in 1..Len(labels) :
                       Len(labels[k]) >= 4 /\ SubSeq(labels[k], 1, 4) = <<120, 110, 45, 45>>
            THEN BOOLEAN
          ELSE IF endsInANumber(domain) THEN {ipv4Parser(domain)}
          ELSE {TRUE}

\* The exception of new URL(...).
TypeError == <<"TypeError">>

\* Line 395: new URL(`http://localhost${normalizedPath}`), as the pathname
\* of the URL or TypeError.  The text is the end of a pathname: it
\* has no "?", "#" or "\", no "." or ".." segment and no character that a
\* pathname encodes.  When it does not start with "/", its characters up to
\* the next "/" continue the authority "localhost": the text after the last
\* "@" is the host and the port, the host ends at the first ":" outside
\* brackets, the port is made of digits and is 65535 at most.
localhostURL(text) ==
  IF text = <<>> THEN {<<Slash>>}
  ELSE IF Head(text) = Slash THEN {text}
  ELSE LET slashes == {k \in 1..Len(text) : text[k] = Slash}
           end == IF slashes = {} THEN Len(text) + 1
                  ELSE CHOOSE k \in slashes : \A j \in slashes : k <= j
           pathname == IF slashes = {} THEN <<Slash>>
                       ELSE SubSeq(text, end, Len(text))
           authority == codePoints(S_localhost \o SubSeq(text, 1, end - 1))
           ats == {k \in 1..Len(authority) : authority[k] = 64}
           afterAt == IF ats = {} THEN authority
                      ELSE SubSeq(authority, (CHOOSE k \in ats : \A j \in ats : j <= k) + 1,
                                  Len(authority))
           outside(k) ==
             LET brackets == {j \in 1..(k - 1) : afterAt[j] \in {91, 93}}
             IN brackets = {} \/ afterAt[CHOOSE j \in brackets : \A i \in brackets : i <= j] = 93
           colons == {k \in 1..Len(afterAt) : afterAt[k] = 58 /\ outside(k)}
           colon == IF colons = {} THEN Len(afterAt) + 1
                    ELSE CHOOSE k \in colons : \A j \in colons : k <= j
           host == SubSeq(afterAt, 1, colon - 1)
           port == SubSeq(afterAt, colon + 1, Len(afterAt))
           parsed == IF host = <<>> THEN {FALSE}
                     ELSE IF ~allDigitsOf(port, 10) \/ valueUpTo(port, 10, 65536) > 65535
                       THEN {FALSE}
                     ELSE hostParser(host)
       IN {IF ok THEN pathname ELSE TypeError : ok \in parsed}

\* Lines 385-419, url being new URL(`http://localhost${normalizedPath}`);
\* the handlers read the id from the URL as it came (lines 246, 307 and
\* 357), and the catch answers the exception of new URL.
events_serve(method, path, url) ==
  LET eventId == events_getEventIdFromUrl(url)
      handlerEventId == events_getEventIdFromUrl(path)
  IN IF url = TypeError THEN internalServerError
     ELSE IF normalizedPath(path) \in {<<Slash>> \o S_events, <<Slash>> \o S_events \o <<Slash>>}
       THEN IF method = "POST" THEN Dispatch("handleCreateEvent", null)
            ELSE IF method = "GET" THEN Dispatch("handleListEvents", null)
            ELSE methodNotAllowed
     ELSE IF startsWith(normalizedPath(path), <<Slash>> \o S_events \o <<Slash>>)
             /\ Truthy(eventId)
       THEN IF method = "GET" THEN Dispatch("handleGetEvent", handlerEventId)
            ELSE IF method = "PUT" THEN Dispatch("handleUpdateEvent", handlerEventId)
            ELSE IF method = "DELETE" THEN Dispatch("handleDeleteEvent", handlerEventId)
            ELSE methodNotAllowed
     ELSE methodNotAllowed

\* The paths of the events function: the plain ones, the same after
\* /functions/v1, and paths in which other characters follow /functions/v1
\* (a port that is none, a port, letters that lengthen the host).
GluedPaths ==
  {S_functions_v1 \o glued \o PathOf(<<S_events, S_1>>) :
     glued \in {<<":", "x">>, <<":", "8", "0">>, <<"a">>}}

EventsPaths ==
  LET plain == PathsOver({S_events} \cup IdSegments)
  IN plain \cup {S_functions_v1 \o p : p \in plain} \cup GluedPaths

\* ------------------------------------------------------------- Deno.serve
methodNotAllowedResponse(q) ==
  [q EXCEPT !.pc = "done", !.status = 405, !.msg = "Method not allowed"]

\* A request as its router leaves it: answered 405, answered 500 by the
\* catch of the router, or given to a handler (field data holds the handler
\* and the id it reads).
Routed(function, method, path, dispatch) ==
  LET q == [NewRequest("serve", NoUser, 0,
                       [function |-> function, method |-> method, path |-> path])
              EXCEPT !.data = dispatch]
  IN IF dispatch = methodNotAllowed THEN methodNotAllowedResponse(q)
     ELSE IF dispatch = internalServerError
       THEN serverErrorResponse(Log(Faulted(q), "Unexpected error in main handler:"),
                                "Internal server error")
     ELSE [q EXCEPT !.pc = "dispatched"]

ServeLineups(r, paths) ==
  /\ Free(r)
  /\ started' = started + 1
  /\ \E method \in Methods, path \in paths :
       req' = [req EXCEPT ![r] = Routed("lineups", method, path, lineups_serve(method, path))]
  /\ UNCHANGED <<festivalVars, collabVars, lineupVars, groupVars>>

ServeSetTimes(r, paths) ==
  /\ Free(r)
  /\ started' = started + 1
  /\ \E method \in Methods, path \in paths :
       req' = [req EXCEPT ![r] =
                 Routed("set-times", method, path, setTimes_serve(method, path))]
  /\ UNCHANGED <<festivalVars, collabVars, lineupVars, groupVars>>

ServeStages(r, paths) ==
  /\ Free(r)
  /\ started' = started + 1
  /\ \E method \in Methods, path \in paths :
       req' = [req EXCEPT ![r] = Routed("stages", method, path, stages_serve(method, path))]
  /\ UNCHANGED <<festivalVars, collabVars, lineupVars, groupVars>>

ServeArtists(r, paths) ==
  /\ Free(r)
  /\ started' = started + 1
  /\ \E method \in Methods, path \in paths :
       req' = [req EXCEPT ![r] = Routed("artists", method, path, artists_serve(method, path))]
  /\ UNCHANGED <<festivalVars, collabVars, lineupVars, groupVars>>

ServeGroupSchedules(r, paths) ==
  /\ Free(r)
  /\ started' = started + 1
  /\ \E method \in Methods, path \in paths :
       req' = [req EXCEPT ![r] =
                 Routed("group-schedules", method, path, groupSchedules_serve(method, path))]
  /\ UNCHANGED <<festivalVars, collabVars, lineupVars, groupVars>>

ServeEvents(r, paths) ==
  /\ Free(r)
  /\ started' = started + 1
  /\ \E method \in Methods, path \in paths :
     \E url \in localhostURL(normalizedPath(path)) :
       req' = [req EXCEPT ![r] = Routed("events", method, path, events_serve(method, path, url))]
  /\ UNCHANGED <<festivalVars, collabVars, lineupVars, groupVars>>

NextRouting ==
  \/ ServeLineups(1, LineupsPaths)
  \/ ServeSetTimes(1, SetTimesPaths)
  \/ ServeStages(1, StagesPaths)
  \/ ServeArtists(1, ArtistsPaths)
  \/ ServeGroupSchedules(1, GroupSchedulesPaths)
  \/ ServeEvents(1, EventsPaths)
  \/ Respond(1)

SpecRouting == Init /\ [][NextRouting]_vars

\* ==================================== reads of a lineup and of a schedule
\* ------------------------------------------- GET /events/:eventId/lineup
\* Lines 641-654 of the lineups function: authentication; the router
\* dispatches here with a non-empty event id.
StartListLineup(r, header) ==
  /\ Free(r)
  /\ started' = started + 1
  /\ \E token \in Users \cup {NoUser}, provider \in ProviderOutcomes, eventId \in EventIds :
       LET user == getAuthenticatedUser(token, provider)
           q == Keyed(Presented(NewRequest("listLineup", user, eventId, NoBody), token, provider), header)
       IN req' = [req EXCEPT ![r] =
            IF user = NoUser THEN unauthorizedResponse(getAuthenticatedUserCatch(Unread(q), token, provider))
            ELSE [q EXCEPT !.pc = "ll_event"]]
  /\ UNCHANGED <<festivalVars, collabVars, lineupVars, groupVars>>

\* Lines 656-668: the event must be readable (.single()).
ListLineupCheckEvent(r) ==
  /\ req[r].pc = "ll_event"
  /\ \E outcome \in {"ok", "error"} :
       LET q == req[r] IN
       req' = [req EXCEPT ![r] =
         IF outcome = "error" \/ q.id \notin events
           THEN notFoundResponse(IF outcome = "error" THEN Faulted(q) ELSE q,
                                 "Event not found or access denied")
         ELSE [q EXCEPT !.pc = "ll_lineup"]]
  /\ UNCHANGED <<started, festivalVars, collabVars, lineupVars, groupVars>>

\* Lines 670-696: the entries of the event, ordered by tier and is_headliner,
\* which the model does not keep: the order is some order of the rows.
ListLineupFetch(r) ==
  /\ req[r].pc = "ll_lineup"
  /\ \E outcome \in {"ok", "error"} :
     \E ordered \in Orderings({l \in lineups : l.event_id = req[r].id}) :
       LET q == req[r] IN
       req' = [req EXCEPT ![r] =
         IF outcome = "error"
           THEN serverErrorResponse(Log(Faulted(q), "error"), "error.message")
         ELSE Response([q EXCEPT !.data = ordered], 200, "")]
  /\ UNCHANGED <<started, festivalVars, collabVars, lineupVars, groupVars>>

\* ----------------------------------------- GET /events/:eventId/schedule
\* Lines 213-225 of the set-times function: authentication; the router
\* dispatches here with a non-empty event id.
StartListSetTimes(r, header) ==
  /\ Free(r)
  /\ started' = started + 1
  /\ \E token \in Users \cup {NoUser}, provider \in ProviderOutcomes, eventId \in EventIds :
       LET user == getAuthenticatedUser(token, provider)
           q == Keyed(Presented(NewRequest("listSetTimes", user, eventId, NoBody), token, provider), header)
       IN req' = [req EXCEPT ![r] =
            IF user = NoUser THEN unauthorizedResponse(getAuthenticatedUserCatch(Unread(q), token, provider))
            ELSE [q EXCEPT !.pc = "lt_event"]]
  /\ UNCHANGED <<festivalVars, collabVars, lineupVars, groupVars>>

\* Lines 227-239: the event must be readable (.single()).
ListSetTimesCheckEvent(r) ==
  /\ req[r].pc = "lt_event"
  /\ \E outcome \in {"ok", "error"} :
       LET q == req[r] IN
       req' = [req EXCEPT ![r] =
         IF outcome = "error" \/ q.id \notin events
           THEN notFoundResponse(IF outcome = "error" THEN Faulted(q) ELSE q,
                                 "Event not found or access denied")
         ELSE [q EXCEPT !.pc = "lt_stages"]]
  /\ UNCHANGED <<started, festivalVars, collabVars, lineupVars, groupVars>>

\* Lines 241-265: the stages of the event, in an order of the store (kept
\* in row); an event without stages has the empty schedule.
ListSetTimesFetchStages(r) ==
  /\ req[r].pc = "lt_stages"
  /\ \E outcome \in {"ok", "error"} :
     \E found \in Orderings({s \in stages : s.event_id = req[r].id}) :
       LET q == req[r] IN
       req' = [req EXCEPT ![r] =
         IF outcome = "error"
           THEN serverErrorResponse(Log(Faulted(q), "stagesError"), "stagesError.message")
         ELSE IF Len(found) = 0 THEN Response([q EXCEPT !.data = <<>>], 200, "")
         ELSE [q EXCEPT !.pc = "lt_set_times", !.row = found]]
  /\ UNCHANGED <<started, festivalVars, collabVars, lineupVars, groupVars>>

\* Lines 267-288: the set times of these stages, ordered by start_time,
\* which the model does not keep (kept in body).
ListSetTimesFetchSetTimes(r) ==
  /\ req[r].pc = "lt_set_times"
  /\ \E outcome \in {"ok", "error"} :
     \E setTimes \in Orderings({t \in set_times :
                                 \E k \in 1..Len(req[r].row) : req[r].row[k].id = t.stage_id}) :
       LET q == req[r] IN
       req' = [req EXCEPT ![r] =
         IF outcome = "error"
           THEN serverErrorResponse(Log(Faulted(q), "setTimesError"), "setTimesError.message")
         ELSE [q EXCEPT !.pc = "lt_collaborations", !.body = setTimes]]
  /\ UNCHANGED <<started, festivalVars, collabVars, lineupVars, groupVars>>

\* Lines 290-337: the collaborations of these set times, in an order of
\* the store; a failure of this query is logged and the schedule goes out
\* without collaborators.  The schedule: for each stage its set times, each
\* with the artists of its collaborations.
ListSetTimesFetchCollaborations(r) ==
  /\ req[r].pc = "lt_collaborations"
  /\ \E outcome \in {"ok", "error"} :
     \E found \in Orderings({c \in artist_collaborations :
                              \E k \in 1..Len(req[r].body) :
                                 req[r].body[k].id = c.set_time_id}) :
       LET q == req[r]
           stageRows == q.row
           setTimes == q.body
           collaborations == IF outcome = "error" THEN <<>> ELSE found
           collaborators(setTime) ==
             LET of == SelectSeq(collaborations, LAMBDA c : c.set_time_id = setTime.id)
             IN [k \in 1..Len(of) |-> of[k].artist_id]
           enrichedSetTimes ==
             [k \in 1..Len(setTimes) |->
                [id |-> setTimes[k].id, stage_id |-> setTimes[k].stage_id,
                 artist_id |-> setTimes[k].artist_id,
                 collaborators |-> collaborators(setTimes[k])]]
           schedule ==
             [k \in 1..Len(stageRows) |->
                [stage |-> stageRows[k],
                 set_times |-> SelectSeq(enrichedSetTimes,
                                         LAMBDA st : st.stage_id = stageRows[k].id)]]
       IN req' = [req EXCEPT ![r] =
            Response([(IF outcome = "error" THEN Log(q, "collabError") ELSE q)
                        EXCEPT !.data = schedule, !.row = 0, !.body = NoBody], 200, "")]
  /\ UNCHANGED <<started, festivalVars, collabVars, lineupVars, groupVars>>

\* ---------------------------- GET /set_times/:setTimeId/collaborations
\* Lines 625-637: authentication; the router dispatches here with a
\* non-empty set time id.
StartListCollaborations(r, header) ==
  /\ Free(r)
  /\ started' = started + 1
  /\ \E token \in Users \cup {NoUser}, provider \in ProviderOutcomes,
        setTimeId \in 1..(MaxSetTimes + 1) :
       LET user == getAuthenticatedUser(token, provider)
           q == Keyed(Presented(NewRequest("listCollaborations", user, setTimeId, NoBody), token, provider), header)
       IN req' = [req EXCEPT ![r] =
            IF user = NoUser THEN unauthorizedResponse(getAuthenticatedUserCatch(Unread(q), token, provider))
            ELSE [q EXCEPT !.pc = "lc_settime"]]
  /\ UNCHANGED <<festivalVars, collabVars, lineupVars, groupVars>>

\* Lines 639-651: the set time must exist; its stage_id is kept.
ListCollaborationsCheckSetTime(r) ==
  /\ req[r].pc = "lc_settime"
  /\ \E outcome \in {"ok", "error"} :
       LET q == req[r] IN
       req' = [req EXCEPT ![r] =
         IF outcome = "error" \/ SetTimeRows(q.id) = {}
           THEN notFoundResponse(IF outcome = "error" THEN Faulted(q) ELSE q,
                                 "Set time not found")
         ELSE [q EXCEPT !.pc = "lc_stage",
                        !.row = (CHOOSE x \in SetTimeRows(q.id) : TRUE).stage_id]]
  /\ UNCHANGED <<started, festivalVars, collabVars, lineupVars, groupVars>>

\* Lines 653-662: the stage of the set time; no row is a 500.
ListCollaborationsGetStage(r) ==
  /\ req[r].pc = "lc_stage"
  /\ \E outcome \in {"ok", "error"} :
       LET q == req[r] IN
       req' = [req EXCEPT ![r] =
         IF outcome = "error" \/ StageRows(q.row) = {}
           THEN serverErrorResponse(IF outcome = "error" THEN Faulted(q) ELSE q,
                                    "Error retrieving stage information")
         ELSE [q EXCEPT !.pc = "lc_event",
                        !.row = (CHOOSE s \in StageRows(q.row) : TRUE).event_id]]
  /\ UNCHANGED <<started, festivalVars, collabVars, lineupVars, groupVars>>

\* Lines 664-673: the event of that stage must be readable.
ListCollaborationsCheckEvent(r) ==
  /\ req[r].pc = "lc_event"
  /\ \E outcome \in {"ok", "error"} :
       LET q == req[r] IN
       req' = [req EXCEPT ![r] =
         IF outcome = "error" \/ q.row \notin events
           THEN unauthorizedResponse(IF outcome = "error" THEN Faulted(q) ELSE q)
         ELSE [q EXCEPT !.pc = "lc_collaborations"]]
  /\ UNCHANGED <<started, festivalVars, collabVars, lineupVars, groupVars>>

\* Lines 675-697: the collaborations of the set time, in an order of the
\* store.
ListCollaborationsFetch(r) ==
  /\ req[r].pc = "lc_collaborations"
  /\ \E outcome \in {"ok", "error"} :
     \E found \in Orderings({c \in artist_collaborations : c.set_time_id = req[r].id}) :
       LET q == req[r] IN
       req' = [req EXCEPT ![r] =
         IF outcome = "error"
           THEN serverErrorResponse(Log(Faulted(q), "error"), "error.message")
         ELSE Response([q EXCEPT !.data = found, !.row = 0], 200, "")]
  /\ UNCHANGED <<started, festivalVars, collabVars, lineupVars, groupVars>>

\* ============================================== one request after another
\* The handlers of the events, artists, stages and set-times functions, run
\* to their response before the next request is received.
NextInTurn ==
  \/ StartCreateEvent(1) \/ CreateEventInsert(1)
  \/ StartListEvents(1) \/ ListEventsFetch(1) \/ ListEventsUserEvents(1)
  \/ StartGetEvent(1) \/ GetEventFetch(1) \/ GetEventUserEvent(1)
  \/ StartUpdateEvent(1) \/ UpdateEventWrite(1)
  \/ StartDeleteEvent(1) \/ DeleteEventWrite(1)
  \/ StartCreateArtist(1) \/ CreateArtistInsert(1)
  \/ StartGetArtist(1) \/ GetArtistFetch(1)
  \/ StartUpdateArtist(1) \/ UpdateArtistCheckExists(1) \/ UpdateArtistWrite(1)
  \/ StartDeleteArtist(1) \/ DeleteArtistCheckExists(1) \/ DeleteArtistCountLineups(1)
  \/ DeleteArtistCountSetTimes(1) \/ DeleteArtistCountCollaborations(1)
  \/ DeleteArtistWrite(1)
  \/ StartCreateStage(1) \/ CreateStageCheckEvent(1) \/ CreateStageInsert(1)
  \/ StartListStages(1) \/ ListStagesCheckEvent(1) \/ ListStagesFetch(1)
  \/ StartUpdateStage(1) \/ UpdateStageCheckStage(1) \/ UpdateStageCheckEvent(1)
  \/ UpdateStageWrite(1)
  \/ StartDeleteStage(1) \/ DeleteStageCheckStage(1) \/ DeleteStageCheckEvent(1)
  \/ DeleteStageWrite(1)
  \/ StartCreateSetTime(1) \/ CreateSetTimeCheckArtist(1) \/ CreateSetTimeCheckStage(1)
  \/ CreateSetTimeCheckEvent(1) \/ CreateSetTimeInsert(1)
  \/ StartUpdateSetTime(1) \/ UpdateSetTimeCheckSetTime(1) \/ UpdateSetTimeCheckNewStage(1)
  \/ UpdateSetTimeGetStage(1) \/ UpdateSetTimeCheckEvent(1) \/ UpdateSetTimeWrite(1)
  \/ StartDeleteSetTime(1) \/ DeleteSetTimeCheckSetTime(1) \/ DeleteSetTimeGetStage(1)
  \/ DeleteSetTimeCheckEvent(1) \/ DeleteSetTimeWrite(1)
  \/ StartRemoveCollaboration(1) \/ RemoveCollaborationCheckCollab(1)
  \/ RemoveCollaborationGetSetTime(1) \/ RemoveCollaborationGetStage(1)
  \/ RemoveCollaborationCheckEvent(1) \/ RemoveCollaborationDelete(1)
  \/ Respond(1)

SpecInTurn == InitSchedule /\ [][NextInTurn]_vars

\* The x-api-key headers of the requests to the handlers that do not read
\* the header.
UnreadHeaders == {"null", API_KEY}

\* The handlers of the six functions, by function.
EventsInTurn ==
  \/ StartCreateEvent(1) \/ CreateEventInsert(1)
  \/ StartListEvents(1) \/ ListEventsFetch(1) \/ ListEventsUserEvents(1)
  \/ StartGetEvent(1) \/ GetEventFetch(1) \/ GetEventUserEvent(1)
  \/ StartUpdateEvent(1) \/ UpdateEventWrite(1)
  \/ StartDeleteEvent(1) \/ DeleteEventWrite(1)

ArtistsInTurn ==
  \/ StartCreateArtist(1) \/ CreateArtistInsert(1)
  \/ (\E header \in UnreadHeaders : StartListArtists(1, header))
  \/ ListArtistsCount(1) \/ ListArtistsFetch(1)
  \/ StartGetArtist(1) \/ GetArtistFetch(1)
  \/ StartUpdateArtist(1) \/ UpdateArtistCheckExists(1) \/ UpdateArtistWrite(1)
  \/ StartDeleteArtist(1) \/ DeleteArtistCheckExists(1) \/ DeleteArtistCountLineups(1)
  \/ DeleteArtistCountSetTimes(1) \/ DeleteArtistCountCollaborations(1)
  \/ DeleteArtistWrite(1)

StagesInTurn ==
  \/ StartCreateStage(1) \/ CreateStageCheckEvent(1) \/ CreateStageInsert(1)
  \/ StartListStages(1) \/ ListStagesCheckEvent(1) \/ ListStagesFetch(1)
  \/ StartUpdateStage(1) \/ UpdateStageCheckStage(1) \/ UpdateStageCheckEvent(1)
  \/ UpdateStageWrite(1)
  \/ StartDeleteStage(1) \/ DeleteStageCheckStage(1) \/ DeleteStageCheckEvent(1)
  \/ DeleteStageWrite(1)

SetTimesInTurn ==
  \/ StartCreateSetTime(1) \/ CreateSetTimeCheckArtist(1) \/ CreateSetTimeCheckStage(1)
  \/ CreateSetTimeCheckEvent(1) \/ CreateSetTimeInsert(1)
  \/ (\E header \in UnreadHeaders : StartListSetTimes(1, header))
  \/ ListSetTimesCheckEvent(1) \/ ListSetTimesFetchStages(1)
  \/ ListSetTimesFetchSetTimes(1) \/ ListSetTimesFetchCollaborations(1)
  \/ StartUpdateSetTime(1) \/ UpdateSetTimeCheckSetTime(1) \/ UpdateSetTimeCheckNewStage(1)
  \/ UpdateSetTimeGetStage(1) \/ UpdateSetTimeCheckEvent(1) \/ UpdateSetTimeWrite(1)
  \/ StartDeleteSetTime(1) \/ DeleteSetTimeCheckSetTime(1) \/ DeleteSetTimeGetStage(1)
  \/ DeleteSetTimeCheckEvent(1) \/ DeleteSetTimeWrite(1)
  \/ (\E header \in UnreadHeaders : StartAddCollaboration(1, header))
  \/ AddCollaborationCheckSetTime(1) \/ AddCollaborationCheckArtist(1)
  \/ AddCollaborationGetStage(1) \/ AddCollaborationCheckEvent(1)
  \/ AddCollaborationInsert(1)
  \/ (\E header \in UnreadHeaders : StartListCollaborations(1, header))
  \/ ListCollaborationsCheckSetTime(1) \/ ListCollaborationsGetStage(1)
  \/ ListCollaborationsCheckEvent(1) \/ ListCollaborationsFetch(1)
  \/ StartRemoveCollaboration(1) \/ RemoveCollaborationCheckCollab(1)
  \/ RemoveCollaborationGetSetTime(1) \/ RemoveCollaborationGetStage(1)
  \/ RemoveCollaborationCheckEvent(1) \/ RemoveCollaborationDelete(1)

LineupsInTurn ==
  \/ (\E header \in UnreadHeaders : StartAddLineupEntry(1, header))
  \/ AddCheckEvent(1) \/ AddCheckArtist(1) \/ AddInsert(1)
  \/ (\E header \in UnreadHeaders : StartListLineup(1, header))
  \/ ListLineupCheckEvent(1) \/ ListLineupFetch(1)
  \/ (\E header \in UnreadHeaders : StartRemoveLineupEntry(1, header))
  \/ RemoveCheckEntry(1) \/ RemoveCheckEvent(1) \/ RemoveDelete(1)

GroupsInTurn ==
  \/ (\E header \in UnreadHeaders : StartListGroupSchedules(1, header))
  \/ ListGroupSchedulesCreated(1) \/ ListGroupSchedulesMember(1)
  \/ (\E header \in UnreadHeaders : ReceiveCreateGroupSchedule(1, header))
  \/ CreateInsertGroup(1) \/ CreateInsertMember(1) \/ CreateCleanup(1)
  \/ (\E header \in UnreadHeaders : StartGetGroupSchedule(1, header))
  \/ GetCheckCreator(1) \/ GetCheckMember(1) \/ GetFetchGroup(1) \/ GetFetchMembers(1)
  \/ (\E header \in UnreadHeaders : StartUpdateGroupSchedule(1, header))
  \/ UpdateCheckCreator(1) \/ UpdateCheckAdmin(1) \/ UpdateWrite(1)
  \/ (\E header \in UnreadHeaders : StartDeleteGroupSchedule(1, header))
  \/ DeleteCheckCreator(1) \/ DeleteWrite(1)

\* Every step a handler takes by itself.
HandlerSteps ==
  \/ EventsInTurn
  \/ ArtistsInTurn
  \/ StagesInTurn
  \/ SetTimesInTurn
  \/ LineupsInTurn
  \/ GroupsInTurn

\* A populated store: an event with a stage, two set times, a collaboration
\* and a lineup entry, an artist that nothing refers to, a saved event, and
\* a group of u1 with u2 as an admin member.
InitInTurn ==
  /\ events = {1}
  /\ artists = {1, 2, 3}
  /\ stages = {[id |-> 1, event_id |-> 1]}
  /\ set_times = {[id |-> 1, stage_id |-> 1, artist_id |-> 1],
                  [id |-> 2, stage_id |-> 1, artist_id |-> 2]}
  /\ nextEventId = 2
  /\ nextArtistId = 4
  /\ nextStageId = 2
  /\ nextSetTimeId = 3
  /\ user_events = {[user_id |-> "u1", event_id |-> 1]}
  /\ artist_collaborations = {[id |-> 1, set_time_id |-> 1, artist_id |-> 2]}
  /\ nextCollabId = 2
  /\ lineups = {[id |-> 1, event_id |-> 1, artist_id |-> 1]}
  /\ nextLineupId = 2
  /\ group_schedules = {[id |-> 1, name |-> "a", event_id |-> 1, created_by |-> "u1"]}
  /\ group_members = {CreatorMember(1, "u1"),
                      [group_id |-> 1, user_id |-> "u2", is_admin |-> TRUE,
                       status |-> "accepted"]}
  /\ nextGroupId = 2
  /\ established = {1}
  /\ started = 0
  /\ req = [r \in Slots |-> Idle]

\* A request is received while fewer than MaxInTurn have been.
InTurn == started < MaxInTurn \/ req[1].pc # "idle"

\* Every handler, one request after another.
NextEveryHandler ==
  \/ InTurn /\ HandlerSteps
  \/ Respond(1)

SpecEveryHandler == InitInTurn /\ [][NextEveryHandler]_vars

\* ===================================================== failures of any kind
\* The handlers whose first await after the credential check is req.json().
BodyHandlers ==
  {"createEvent", "updateEvent", "createArtist", "updateArtist", "createStage",
   "updateStage", "createSetTime", "updateSetTime", "addCollaboration",
   "addLineupEntry", "createGroupSchedule", "updateGroupSchedule"}

\* A request whose body is no JSON document (or is the document null): the
\* credential check comes first, then req.json() or the destructuring of
\* the body throws inside the try block of the handler and its catch
\* answers serverErrorResponse(error.message).
StartUnparsableJson(r) ==
  /\ Free(r)
  /\ started' = started + 1
  /\ \E fn \in BodyHandlers, token \in {"u1", NoUser}, provider \in ProviderOutcomes,
        header \in ApiKeyHeaders :
       LET keyGated == fn \in {"createEvent", "updateEvent"}
           user == IF keyGated THEN token ELSE getAuthenticatedUser(token, provider)
           q == Keyed(Presented(NewRequest(fn, user, 0, NoBody), token, provider), header)
           denied == IF keyGated THEN ~verifyApiKey(header) ELSE user = NoUser
       IN req' = [req EXCEPT ![r] =
            IF denied
            THEN unauthorizedResponse(IF keyGated THEN q
                                      ELSE getAuthenticatedUserCatch(q, token, provider))
            ELSE serverErrorResponse(Log(Faulted(q), "Unexpected error"), "error.message")]
  /\ UNCHANGED <<festivalVars, collabVars, lineupVars, groupVars>>

\* The call a handler is waiting for throws instead of resolving: the catch
\* of the handler logs the exception and answers 500.
CatchThrown(r) ==
  /\ req[r].pc \notin {"idle", "done", "dispatched"}
  /\ req' = [req EXCEPT ![r] =
       serverErrorResponse(Log(Faulted(req[r]), "Unexpected error"), "error.message")]
  /\ UNCHANGED <<started, festivalVars, collabVars, lineupVars, groupVars>>

\* The paths of the requests whose routing is followed to its end: the
\* collection of a function, a path that no function knows, and a path
\* from which the events function cannot build its URL.
OutcomePaths ==
  {PathOf(<<S_events>>), PathOf(<<S_artists>>), PathOf(<<S_lineups>>),
   PathOf(<<S_group_dash_schedules>>), PathOf(<<S_abc>>),
   S_functions_v1 \o <<":", "x">> \o PathOf(<<S_events>>)}

\* Every handler, the routers, the bodies that are no JSON and the calls
\* that throw, one request after another.
NextOutcomes ==
  \/ InTurn /\ HandlerSteps
  \/ InTurn /\ ServeLineups(1, OutcomePaths)
  \/ InTurn /\ ServeSetTimes(1, OutcomePaths)
  \/ InTurn /\ ServeStages(1, OutcomePaths)
  \/ InTurn /\ ServeArtists(1, OutcomePaths)
  \/ InTurn /\ ServeGroupSchedules(1, OutcomePaths)
  \/ InTurn /\ ServeEvents(1, OutcomePaths)
  \/ InTurn /\ StartUnparsableJson(1)
  \/ CatchThrown(1)
  \/ Respond(1)

SpecOutcomes == InitInTurn /\ [][NextOutcomes]_vars

\* ================================================================ claims
\* The request in slot r takes a step of its handler.
Steps(r) == req[r].pc # "done" /\ req'[r] # req[r]

\* The request in slot r is answered in this step.
Answered(r) == req[r].pc # "done" /\ req'[r].pc = "done"

IsCreator(gid, user) ==
  \E g \in group_schedules : g.id = gid /\ g.created_by = user

IsMember(gid, user) ==
  \E m \in group_members : m.group_id = gid /\ m.user_id = user

IsAdminMember(gid, user) ==
  \E m \in group_members : m.group_id = gid /\ m.user_id = user /\ m.is_admin = TRUE

HasCreatorAdmin(g) ==
  \E m \in group_members :
     /\ m.group_id = g.id
     /\ m.user_id = g.created_by
     /\ m.is_admin = TRUE
     /\ m.status = "accepted"

CreateFailedAtMember(r) ==
  /\ req[r].fn = "createGroupSchedule"
  /\ req[r].pc = "done"
  /\ req[r].merr # "none"

\* C1 as stated: when a group creation is answered 201, the store then
\* holds exactly one group_schedules row with the id the request inserted,
\* created by the caller, and exactly one group_members row for that group:
\* the caller's, with is_admin = true and status = 'accepted'. An update of
\* the creator that carries created_by "" passes the guard of the update
\* handler and, written between the two inserts, leaves the 201 over a row
\* whose created_by is no longer the caller.
C1_Original ==
  [][\A r \in Slots :
       (Answered(r) /\ req'[r].fn = "createGroupSchedule" /\ req'[r].status = 201) =>
         LET gid == req'[r].row
             uid == req'[r].user
         IN /\ Cardinality({g \in group_schedules' : g.id = gid}) = 1
            /\ \A g \in group_schedules' : g.id = gid => g.created_by = uid
            /\ {m \in group_members' : m.group_id = gid} =
                 {[group_id |-> gid, user_id |-> uid, is_admin |-> TRUE, status |-> "accepted"]}]_vars

\* C1, amended: when a group creation is answered 201, the store then holds
\* exactly one group_schedules row with the id the request inserted and
\* exactly one group_members row for that group: the caller's, with
\* is_admin = true and status = 'accepted'.
C1_CreatedGroupHasItsCreatorRow ==
  [][\A r \in Slots :
       (Answered(r) /\ req'[r].fn = "createGroupSchedule" /\ req'[r].status = 201) =>
         LET gid == req'[r].row
             uid == req'[r].user
         IN /\ Cardinality({g \in group_schedules' : g.id = gid}) = 1
            /\ {m \in group_members' : m.group_id = gid} =
                 {[group_id |-> gid, user_id |-> uid, is_admin |-> TRUE, status |-> "accepted"]}]_vars

C1_Witness ==
  \E r \in Slots :
     /\ req[r].fn = "createGroupSchedule"
     /\ req[r].status = 201
     /\ \E g \in group_schedules : g.id = req[r].row
     /\ IsAdminMember(req[r].row, req[r].user)

\* C2 as stated: once a creation whose member insert failed has been
\* answered, the group row it inserted is not in the store, whatever the
\* store did on the steps after the member insert. The handler drops the
\* result of its compensating delete, so a delete the store refused leaves
\* the row behind the error response.
C2_Original ==
  \A r \in Slots :
     CreateFailedAtMember(r) => ~(\E g \in group_schedules : g.id = req[r].row)

\* C3 as stated: in every state every group_schedules row has a member
\* row of its creator with is_admin = true and status = 'accepted'. The
\* two inserts of a creation are separate statements, so the row stands
\* without its member between them, and for good when the compensating
\* delete is refused.
C3_Original == \A g \in group_schedules : HasCreatorAdmin(g)

\* C4: when the member insert of a creation failed, the response reports
\* the member error (403 with the row-level-security hint, otherwise 500
\* with the member error's message) whether or not the compensating delete
\* succeeded, and a failed compensating delete is logged.
C4_Claim ==
  \A r \in Slots :
     CreateFailedAtMember(r) =>
        /\ req[r].merr = "rls" =>
             /\ req[r].status = 403
             /\ req[r].msg = "Row Level Security policy violation: group_members"
        /\ req[r].merr = "error" =>
             /\ req[r].status = 500
             /\ req[r].msg = "memberError.message"
        /\ req[r].cerr = "error" => req[r].logs \ {"groupError", "memberError"} # {}

\* C5: a GET by an authenticated user who, when the handler looks, is
\* neither the creator nor a member is never passed on to the reads of the
\* group and is answered 404, whether or not the group exists; it is never
\* answered 401 or 200.  (A store call that fails gives 500.)
C5_OutsiderGets404 ==
  [][\A r \in Slots :
       (req[r].fn = "getGroupSchedule" /\ Steps(r)) =>
         /\ (req[r].pc = "get_creator" /\ ~IsCreator(req[r].id, req[r].user)) =>
               req'[r].pc \in {"get_member", "done"}
         /\ (req[r].pc = "get_member" /\ ~IsMember(req[r].id, req[r].user)) =>
               /\ req'[r].pc = "done"
               /\ req'[r].status \in {404, 500}
               /\ ~req'[r].fault => req'[r].status = 404
         /\ (req'[r].pc = "done" /\ req'[r].authz = "none" /\ req'[r].user # NoUser) =>
               req'[r].status \notin {200, 401}]_vars

C5_Witness ==
  \E r \in Slots :
     /\ req[r].fn = "getGroupSchedule"
     /\ req[r].status = 404
     /\ \E g \in group_schedules : g.id = req[r].id
     /\ ~IsCreator(req[r].id, req[r].user)
     /\ ~IsMember(req[r].id, req[r].user)

\* C6: a PUT reaches the update of the group row only after the handler
\* found the caller to be the creator or to hold a member row with
\* is_admin = true; a caller found to be neither is answered 401, has
\* issued no write, and the group rows are unchanged.
C6_UpdateNeedsCreatorOrAdmin ==
  [][\A r \in Slots :
       (req[r].fn = "updateGroupSchedule" /\ Steps(r)) =>
         /\ (req[r].pc = "upd_creator" /\ req'[r].pc = "upd_write") =>
               IsCreator(req[r].id, req[r].user)
         /\ (req[r].pc = "upd_admin" /\ req'[r].pc = "upd_write") =>
               IsAdminMember(req[r].id, req[r].user)
         /\ (req[r].pc = "upd_admin" /\ ~IsAdminMember(req[r].id, req[r].user)) =>
               /\ req'[r].pc = "done"
               /\ ~req'[r].fault => req'[r].status = 401
               /\ req'[r].writes = 0
         /\ (req'[r].writes # req[r].writes \/ group_schedules' # group_schedules) =>
               /\ req[r].pc = "upd_write"
               /\ req[r].authz \in {"creator", "admin"}]_vars

C6_Witness ==
  \E r \in Slots :
     /\ req[r].fn = "updateGroupSchedule"
     /\ req[r].status = 200
     /\ req[r].authz = "admin"
     /\ ~IsCreator(req[r].id, req[r].user)
     /\ \E g \in group_schedules : g.id = req[r].id /\ g.name = "b"

\* C7 as stated: a DELETE removes group rows only when they were created
\* by the caller; a caller who is not the creator, admin member or not, is
\* answered 401 and the group and member rows stay as they are. The delete
\* selects by id alone: a row whose created_by an update rewrote between
\* the permission check and the delete is removed all the same.
C7_Original ==
  [][\A r \in Slots :
       (req[r].fn = "deleteGroupSchedule" /\ Steps(r)) =>
         /\ \A g \in group_schedules \ group_schedules' : g.created_by = req[r].user
         /\ (req[r].pc = "del_creator" /\ ~IsCreator(req[r].id, req[r].user)) =>
               /\ req'[r].pc = "done"
               /\ ~req'[r].fault => req'[r].status = 401
               /\ req'[r].writes = 0
               /\ group_schedules' = group_schedules
               /\ group_members' = group_members]_vars

\* C7, amended: a DELETE removes only the group row with the requested id,
\* and only after its permission check found a row with that id created by
\* the caller; a caller who is not the creator at the check, admin member
\* or not, is answered 401 and the group and member rows stay as they are.
C7_DeleteNeedsCreator ==
  [][\A r \in Slots :
       (req[r].fn = "deleteGroupSchedule" /\ Steps(r)) =>
         /\ \A g \in group_schedules \ group_schedules' :
               g.id = req[r].id /\ req[r].pc = "del_write"
         /\ (req[r].pc = "del_creator" /\ req'[r].pc = "del_write") =>
               IsCreator(req[r].id, req[r].user)
         /\ (req[r].pc = "del_creator" /\ ~IsCreator(req[r].id, req[r].user)) =>
               /\ req'[r].pc = "done"
               /\ ~req'[r].fault => req'[r].status = 401
               /\ req'[r].writes = 0
               /\ group_schedules' = group_schedules
               /\ group_members' = group_members]_vars

C7_Witness ==
  \E r \in Slots :
     /\ req[r].fn = "deleteGroupSchedule"
     /\ req[r].status = 401
     /\ req[r].user # NoUser
     /\ IsAdminMember(req[r].id, req[r].user)
     /\ \E g \in group_schedules : g.id = req[r].id /\ g.created_by # req[r].user

PairRows(rows, event_id, artist_id) ==
  {l \in rows : l.event_id = event_id /\ l.artist_id = artist_id}

\* C8: once the store holds a lineup row for a pair (event_id, artist_id),
\* an insert request for the same pair passes the event and artist checks,
\* is answered 409 at its insert and leaves the lineup rows as they are;
\* the store never holds two rows for one pair.  (A store call that fails
\* gives 404 at a check and 500 at the insert.)
C8_RepeatedInsertConflicts ==
  [][/\ \A r \in Slots :
          (req[r].fn = "addLineupEntry" /\ Steps(r)
             /\ PairRows(lineups, req[r].body.event_id, req[r].body.artist_id) # {}) =>
            /\ lineups' = lineups
            /\ ~req'[r].fault =>
                 \/ req[r].pc = "add_event" /\ req'[r].pc = "add_artist"
                 \/ req[r].pc = "add_artist" /\ req'[r].pc = "add_insert"
                 \/ req[r].pc = "add_insert" /\ req'[r].pc = "done" /\ req'[r].status = 409
     /\ \A l \in lineups' : PairRows(lineups', l.event_id, l.artist_id) = {l}]_vars

C8_Witness ==
  \E r \in Slots :
     /\ req[r].fn = "addLineupEntry"
     /\ req[r].status = 409
     /\ nextLineupId = 2
     /\ Cardinality(PairRows(lineups, req[r].body.event_id, req[r].body.artist_id)) = 1

\* The authenticated insert requests for one pair of an existing event and
\* an existing artist.
Racers(event_id, artist_id) ==
  {r \in Slots : /\ req[r].fn = "addLineupEntry"
                 /\ req[r].user # NoUser
                 /\ req[r].body = [event_id |-> event_id, artist_id |-> artist_id]}

\* C9: when two or more insert requests for the same pair have run, in any
\* interleaving, and none of their store calls failed, exactly one of them
\* was answered with success (200), every other one with 409, and the store
\* holds exactly one row for the pair.
C9_RaceHasOneWinner ==
  \A e \in events, a \in artists :
     LET R == Racers(e, a) IN
     (/\ Cardinality(R) >= 2
      /\ \A r \in R : req[r].pc = "done" /\ ~req[r].fault) =>
        /\ Cardinality({r \in R : req[r].status = 200}) = 1
        /\ \A r \in R : req[r].status \in {200, 409}
        /\ Cardinality(PairRows(lineups, e, a)) = 1

C9_Witness ==
  \E r1, r2 \in Slots :
     /\ r1 # r2
     /\ req[r1].fn = "addLineupEntry" /\ req[r2].fn = "addLineupEntry"
     /\ req[r1].body = req[r2].body
     /\ req[r1].status = 200
     /\ req[r2].status = 409
     /\ req[r2].writes = 1

MainArtistOf(set_time_id) == {t.artist_id : t \in {x \in set_times : x.id = set_time_id}}

\* C10: an authenticated add-collaboration request whose artist_id names
\* the primary artist of the set time it addresses issues no store write on
\* any of its steps and is answered 400 when it has read the set time.  (If
\* that read fails the answer is 404, still without a write.)
C10_Claim ==
  [][\A r \in Slots :
       (req[r].fn = "addCollaboration" /\ Steps(r)
          /\ StoredInteger(req[r].body.artist_id) # NaN
          /\ StoredInteger(req[r].body.artist_id)[1] \in MainArtistOf(req[r].id)) =>
         /\ req'[r].writes = 0
         /\ artist_collaborations' = artist_collaborations
         /\ req[r].pc = "col_settime"
         /\ req'[r].pc = "done"
         /\ ~req'[r].fault =>
              /\ req'[r].status = 400
              /\ req'[r].msg = "Cannot add main artist as a collaborator"]_vars

\* The rows of a table that reference an artist.
ReferencesTo(rows, artist_id) == {x \in rows : x.artist_id = artist_id}

\* The dependencies object of the first kind of row that blocks a deletion.
BlockingDependencies(artist_id) ==
  LET l == Cardinality(ReferencesTo(lineups, artist_id))
      t == Cardinality(ReferencesTo(set_times, artist_id))
      c == Cardinality(ReferencesTo(artist_collaborations, artist_id))
  IN IF l > 0 THEN [dependencies |-> [lineups |-> l]]
     ELSE IF t > 0 THEN [dependencies |-> [set_times |-> t]]
     ELSE [dependencies |-> [collaborations |-> c]]

IsReferenced(artist_id) ==
  \E rows \in {lineups, set_times, artist_collaborations} :
     ReferencesTo(rows, artist_id) # {}

\* C11: a DELETE /artists/{id} that carries the administrative key, for an
\* artist that lineups, set_times or artist_collaborations rows reference,
\* is answered 409 (no store call failing) with the count of the first
\* blocking kind in its dependencies object; it has written nothing and the
\* artist row is still in the table.
C11_ReferencedArtistIsKept ==
  \A r \in Slots :
     (req[r].fn = "deleteArtist" /\ req[r].pc = "done" /\ req[r].key
        /\ ~req[r].fault /\ IsReferenced(req[r].id)) =>
       /\ req[r].status = 409
       /\ req[r].data = BlockingDependencies(req[r].id)
       /\ req[r].writes = 0
       /\ req[r].id \in artists

C11_Witness ==
  \E r \in Slots :
     /\ req[r].fn = "deleteArtist"
     /\ req[r].pc = "done"
     /\ req[r].status = 409
     /\ req[r].data = [dependencies |-> [lineups |-> 2]]
     /\ req[r].id \in artists
     /\ \E s \in Slots : req[s].fn = "deleteArtist" /\ req[s].status = 200

\* The handlers of the events function that write to the events table.
EventWriteHandlers == {"createEvent", "updateEvent", "deleteEvent"}

\* The request in slot r is received or takes a step of its handler.
Handled(r) == req'[r] # req[r] /\ req'[r].fn # "idle"

\* C12: a create, update or delete request on events whose x-api-key is not
\* the configured key is answered 401 on its first step, whatever its
\* bearer token, has issued no write and leaves the events table as it is;
\* a list or single-event request with a valid bearer token is answered 200,
\* unless a store call failed, the single event does not exist or the page
\* asked for starts before the first row.
C12_EventWritesNeedTheKey ==
  [][\A r \in Slots : Handled(r) =>
       /\ (req'[r].fn \in EventWriteHandlers /\ ~req'[r].key) =>
            /\ req'[r].pc = "done"
            /\ req'[r].status = 401
            /\ req'[r].writes = 0
            /\ events' = events
       /\ (req'[r].fn \in {"listEvents", "getEvent"} /\ req'[r].user # NoUser
             /\ req'[r].pc = "done") =>
            \/ req'[r].status = 200
            \/ req'[r].fault
            \/ req'[r].fn = "getEvent" /\ req'[r].id \notin events
            \/ /\ req'[r].fn = "listEvents"
               /\ rangeNotSatisfiable(startRange(req'[r].body.page, req'[r].body.pageSize),
                                      endRange(req'[r].body.page, req'[r].body.pageSize))]_vars

\* After a keyed request has created an event, a delete request of a signed-in
\* caller without the key is answered 401 and the event is still there.
C12_Witness ==
  \E r \in Slots :
     /\ req[r].fn = "deleteEvent" /\ ~req[r].key /\ req[r].user = "u1"
     /\ req[r].status = 401 /\ req[r].id \in events
     /\ nextEventId > 2 /\ req[r].id = nextEventId - 1

\* The handlers gated by the administrative key, and those gated by the
\* identity of the caller.
KeyGatedHandlers == {"createEvent", "updateEvent", "deleteEvent", "deleteArtist"}

IdentityGatedHandlers ==
  {"listEvents", "getEvent",
   "createArtist", "listArtists", "getArtist", "updateArtist",
   "createStage", "listStages", "updateStage", "deleteStage",
   "createSetTime", "listSetTimes", "updateSetTime", "deleteSetTime",
   "addCollaboration", "listCollaborations", "removeCollaboration",
   "addLineupEntry", "listLineup", "removeLineupEntry",
   "listGroupSchedules", "createGroupSchedule", "getGroupSchedule",
   "updateGroupSchedule", "deleteGroupSchedule"}

\* C13: a request with the valid x-api-key and no valid bearer token is
\* answered 401 by every handler gated by the caller's identity, and a
\* request with a valid bearer token and no valid x-api-key is answered 401
\* by every handler gated by the key; both on their first step, before any
\* write.
C13_KeyIsNotIdentity ==
  [][\A r \in Slots : Handled(r) =>
       /\ req'[r].fn \in KeyGatedHandlers \cup IdentityGatedHandlers
       /\ (req'[r].fn \in IdentityGatedHandlers /\ req'[r].key /\ req'[r].user = NoUser) =>
            req'[r].pc = "done" /\ req'[r].status = 401 /\ req'[r].writes = 0
       /\ (req'[r].fn \in KeyGatedHandlers /\ ~req'[r].key /\ req'[r].user # NoUser) =>
            req'[r].pc = "done" /\ req'[r].status = 401 /\ req'[r].writes = 0]_vars

\* A request for the groups of the caller that carries the key and no
\* bearer token has been answered 401, the store holding a group.
C13_Witness ==
  \E r \in Slots :
     /\ req[r].fn = "listGroupSchedules" /\ req[r].key /\ req[r].bearer[1] = NoUser
     /\ req[r].user = NoUser
     /\ req[r].status = 401
     /\ group_schedules # {}

\* The handlers that write to a stage, a set time or a collaboration.
EventChildWriteHandlers ==
  {"createStage", "updateStage", "deleteStage",
   "createSetTime", "updateSetTime", "deleteSetTime", "removeCollaboration"}

\* C14: an authenticated caller without the administrative key (no event
\* has an owner: created_by is null) who writes to a stage, a set time or a
\* collaboration is refused with 401 or 404 (400 for a malformed body), and
\* never answered 500, no store call failing.
C14_Claim ==
  \A r \in Slots :
     (req[r].fn \in EventChildWriteHandlers /\ req[r].pc = "done"
        /\ req[r].user # NoUser /\ ~req[r].key /\ ~req[r].fault) =>
       req[r].status \in {400, 401, 404}

\* C15: an authenticated PUT or DELETE /group-schedules/{id} for an id that
\* no group_schedules row has ever had is answered 404, no store call
\* failing: existence is settled before permission.
C15_Claim ==
  \A r \in Slots :
     (req[r].fn \in {"updateGroupSchedule", "deleteGroupSchedule"} /\ req[r].pc = "done"
        /\ req[r].user # NoUser /\ ~req[r].fault /\ req[r].id >= nextGroupId) =>
       req[r].status = 404

\* C16: when an authenticated GET /events/{id} reads the events table and no
\* row has that id, the request is answered 404 and not 500 (the read itself
\* not failing).
C16_Claim ==
  [][\A r \in Slots :
       (req[r].fn = "getEvent" /\ req[r].pc = "ge_event" /\ req[r].id \notin events
          /\ req'[r].pc = "done" /\ ~req'[r].fault) =>
         req'[r].status = 404]_vars


\* ---------------------------------------------------------------------- C17
\* The filtered results a listing may cut its page from, in the state in
\* which its data query runs: the artists a search keeps in the order of
\* their names; the events the filters keep, in an order of the store; the
\* rows of the groups the user created (read before) and then those of the
\* groups the user is a member of, one row per id, restricted to an event.
FilteredResults(q) ==
  CASE q.fn = "listArtists" -> {Ascending(SearchedArtists(q.body.search))}
    [] q.fn = "listEvents" -> UNION {Orderings(kept) : kept \in FilteredEvents(q.body)}
    [] OTHER ->
         {filteredGroups(uniqueGroups(q.row \o joined), q.body.eventId) :
            joined \in Orderings(MemberGroups(q.user))}

\* The step in which a listing reads its page, and the page it has read.
ReadsPage(q, a) ==
  \/ q.pc = "la_page" /\ a.pc = "done" /\ a.status = 200
  \/ q.pc = "lg_member" /\ a.pc = "done" /\ a.status = 200
  \/ q.pc = "le_events" /\ a.pc = "le_user_events"

PageRead(a) == IF a.fn = "listEvents" THEN a.row ELSE a.data.rows

\* An answered listing.
Listed(q) ==
  /\ q.fn \in {"listArtists", "listGroupSchedules", "listEvents"}
  /\ q.pc = "done"
  /\ q.status = 200

\* The pagination objects of the answer of a listing: GET /events answers
\* the bare array of its rows (lines 226-229).
Paginations(q) == IF q.fn = "listEvents" THEN {} ELSE {q.data.pagination}

\* The positions of the filtered result a page covers, cut at its end.
PagePositions(page, pageSize, total) ==
  {k \in 0..(total - 1) : (page - 1) * pageSize <= k /\ k <= page * pageSize - 1}

ValidPage(q) ==
  /\ IsFinite(q.body.page) /\ q.body.page[1] >= 1
  /\ IsFinite(q.body.pageSize) /\ q.body.pageSize[1] >= 1

\* The page a listing reads holds the records at the zero-based positions
\* (page-1)*pageSize .. page*pageSize-1 of the filtered result, in their order.
PageIsTheRange ==
  \A r \in Slots :
    LET q == req[r]
        a == req'[r]
    IN (ReadsPage(q, a) /\ ValidPage(q)) =>
         \E result \in FilteredResults(q) :
           LET page == q.body.page[1]
               pageSize == q.body.pageSize[1]
               rows == PageRead(a)
           IN /\ Len(rows) = Cardinality(PagePositions(page, pageSize, Len(result)))
              /\ \A i \in 1..Len(rows) : rows[i] = result[(page - 1) * pageSize + i]

\* The answer of a listing reports totalPages: the least number of pages
\* that hold totalCount records, 0 for none.
TotalPagesAreReported ==
  \A r \in Slots :
    LET a == req'[r]
    IN (Answered(r) /\ Listed(a) /\ ValidPage(a)) =>
         \E p \in Paginations(a) :
           /\ IsFinite(p.totalPages)
           /\ p.totalPages[1] * a.body.pageSize[1] >= p.totalCount
           /\ (p.totalPages[1] - 1) * a.body.pageSize[1] < p.totalCount \/ p.totalPages[1] = 0
           /\ p.totalCount = 0 => p.totalPages[1] = 0

\* C17: for every page >= 1 and pageSize >= 1 a paginated listing reads
\* exactly the records at the zero-based positions (page-1)*pageSize ..
\* page*pageSize-1 of the filtered result, and its answer reports totalPages
\* = ceil(totalCount / pageSize), 0 when totalCount is 0.
C17_Claim == [][PageIsTheRange /\ TotalPagesAreReported]_vars


\* ---------------------------------------------------------------------- C18
\* The segments an id position is filled with.
RouteIds ==
  IdSegments \cup {S_events, S_lineups, S_lineup, S_schedule, S_set_dash_times, S_set_times,
                   S_collaborations, S_artist_collaborations}

ScheduleShapes(id) ==
  {PathOf(<<S_events, id, S_schedule>>), PathOf(<<S_set_dash_times, id, S_schedule>>)}

LineupShapes(id) ==
  {PathOf(<<S_events, id, S_lineup>>), PathOf(<<S_lineups, id, S_lineup>>)}

Served(q, function) == q.fn = "serve" /\ q.body.function = function

\* C18: for every id, GET /events/{id}/schedule and GET /set-times/{id}/schedule
\* are given to the same handler with the same event id (the listing of the
\* set times, with {id}, for a non-empty id), and so are GET /events/{id}/lineup
\* and GET /lineups/{id}/lineup (the listing of the lineup).
C18_BothShapesSameRoute ==
  \A r \in Slots : \A id \in RouteIds :
    LET q == req[r] IN
    /\ (Served(q, "set-times") /\ q.body.method = "GET" /\ q.body.path \in ScheduleShapes(id)) =>
         /\ \A other \in ScheduleShapes(id) : q.data = setTimes_serve("GET", other)
         /\ Truthy(id) => q.data = Dispatch("handleListSetTimes", id)
    /\ (Served(q, "lineups") /\ q.body.method = "GET" /\ q.body.path \in LineupShapes(id)) =>
         /\ \A other \in LineupShapes(id) : q.data = lineups_serve("GET", other)
         /\ Truthy(id) => q.data = Dispatch("handleListLineup", id)

\* GET /set-times/12/schedule has reached the listing of the set times of
\* event 12.
C18_Witness ==
  \E r \in Slots :
    /\ Served(req[r], "set-times")
    /\ req[r].pc = "dispatched"
    /\ req[r].body.method = "GET"
    /\ req[r].body.path = PathOf(<<S_set_dash_times, S_12, S_schedule>>)
    /\ req[r].data = Dispatch("handleListSetTimes", S_12)

\* ---------------------------------------------------------------------- C19
\* The handlers of one artist, set time, stage, lineup entry, collaboration
\* or group, which read the id of that resource from the path.
IntegerKeyedHandlers ==
  {"handleGetArtist", "handleUpdateArtist", "handleDeleteArtist",
   "handleUpdateSetTime", "handleDeleteSetTime", "handleAddCollaboration",
   "handleListCollaborations", "handleRemoveCollaboration",
   "handleUpdateStage", "handleDeleteStage", "handleRemoveLineupEntry",
   "handleGetGroupSchedule", "handleUpdateGroupSchedule", "handleDeleteGroupSchedule"}

IsNumeric(id) == id # <<>> /\ id # null /\ \A k \in 1..Len(id) : IsDigit(id[k])

\* C19: no router gives a request to the handler of an integer-keyed
\* resource with a non-numeric segment as the id of the resource; such a
\* path is answered 405.
C19_Claim ==
  \A r \in Slots :
    (req[r].fn = "serve" /\ req[r].pc = "dispatched"
       /\ req[r].data.handler \in IntegerKeyedHandlers)
      => IsNumeric(req[r].data.id)

\* ---------------------------------------------------------------------- C20
NestedListingShape(path) ==
  \E id \in RouteIds :
    path \in {PathOf(<<S_lineups, id, S_lineup>>), PathOf(<<S_set_dash_times, id, S_schedule>>)}

\* C20: a path of the shape /lineups/{id}/lineup or /set-times/{id}/schedule
\* is never given to the handler of a single lineup entry or set time.
C20_Claim ==
  \A r \in Slots :
    (req[r].fn = "serve" /\ NestedListingShape(req[r].body.path))
      => req[r].data.handler \notin
           {"handleRemoveLineupEntry", "handleUpdateSetTime", "handleDeleteSetTime"}


\* ---------------------------------------------------------------------- C21
ResponseStatuses == {200, 201, 400, 401, 403, 404, 405, 409, 500}

\* C21: whatever the store, the authentication provider or the parsing of the
\* body do (error result, exception, no JSON), a request that has ended has
\* one of the statuses 200, 201, 400, 401, 403, 404, 405, 409 and 500, its
\* body carries an error string unless the status is 200 or 201, and a
\* request that a handler has not answered can always take its next step;
\* the request a router does not hand to a handler is answered 405, or 500
\* by the catch of the router.
C21_EveryOutcomeIsAFormattedResponse ==
  \A r \in Slots :
    /\ req[r].pc = "done" =>
         /\ req[r].status \in ResponseStatuses
         /\ req[r].status \notin {200, 201} => req[r].msg # ""
         /\ req[r].fn = "serve" => req[r].status \in {405, 500}
    /\ req[r].pc \notin {"idle", "done", "dispatched"} => ENABLED HandlerSteps

\* A group creation has ended with 500 after an exception thrown once it had
\* written to the store.
C21_Witness ==
  \E r \in Slots :
    /\ req[r].pc = "done"
    /\ req[r].status = 500
    /\ "Unexpected error" \in req[r].logs
    /\ req[r].fn = "createGroupSchedule"
    /\ req[r].writes > 0


\* ---------------------------------------------------------------------- C22
\* The tables of the store.
tables ==
  <<events, artists, stages, set_times, user_events, artist_collaborations, lineups,
    group_schedules, group_members>>

\* C22: a request to a handler gated by the identity of the caller whose
\* bearer token is absent or rejected, or for which the call of the
\* authentication provider fails or throws, has no identity, is answered
\* 401 (not the 500 of an exception) on its first step, before any call to
\* the store, and the tables are as they were.
C22_NoIdentityNoStoreAccess ==
  [][\A r \in Slots :
       LET a == req'[r] IN
       (/\ req[r].fn = "idle"
        /\ a.fn \in IdentityGatedHandlers
        /\ a.bearer[1] = NoUser \/ a.bearer[2] # "user") =>
         /\ a.user = NoUser
         /\ a.pc = "done"
         /\ a.status = 401
         /\ a.writes = 0
         /\ tables' = tables]_vars

\* An update of an existing group without identity has been answered 401.
C22_Witness ==
  \E r \in Slots :
    /\ req[r].fn = "updateGroupSchedule"
    /\ req[r].user = NoUser
    /\ req[r].pc = "done"
    /\ req[r].status = 401
    /\ req[r].bearer = <<"u1", "throw">>
    /\ "Error authenticating user" \in req[r].logs
    /\ group_schedules # {}

\* C23: no update request writes a payload that names the row's id or
\* created_by, nor a stage's event_id, whatever value the caller gave
\* them, 0 and the empty string included.
UpdateHandlers ==
  {"updateEvent", "updateStage", "updateSetTime", "updateArtist", "updateGroupSchedule"}

C23_Claim ==
  \A r \in Slots :
    (req[r].fn \in UpdateHandlers /\ req[r].writes > 0) =>
      /\ DOMAIN req[r].body \cap {"id", "created_by"} = {}
      /\ req[r].fn = "updateStage" => "event_id" \notin DOMAIN req[r].body

\* C24: in a group creation the member insert is issued only after the
\* group insert succeeded, the compensating delete only after the member
\* insert failed, the error response for a member failure only after the
\* delete was answered, and a failed group insert is followed by neither a
\* member insert nor a delete.
Creating(r) == req[r].fn = "createGroupSchedule"

C24_CreationOrder ==
  [][\A r \in Slots :
       (Creating(r) /\ req'[r] # req[r]) =>
         /\ req'[r].pc = "insert_member" =>
               /\ req[r].pc = "insert_group"
               /\ \E g \in group_schedules' \ group_schedules : g.id = req'[r].row
         /\ req'[r].pc = "cleanup" =>
               /\ req[r].pc = "insert_member"
               /\ req'[r].merr # "none"
               /\ group_members' = group_members
         /\ (req'[r].pc = "done" /\ req'[r].merr # "none") =>
               /\ req[r].pc = "cleanup"
               /\ req'[r].cerr # "none"
               /\ req'[r].writes = 3
               /\ req'[r].status \in {403, 500}
         /\ (req[r].pc = "insert_group" /\ req'[r].pc = "done") =>
               /\ req'[r].writes = 1
               /\ req'[r].merr = "none" /\ req'[r].cerr = "none"
               /\ group_schedules' = group_schedules
               /\ group_members' = group_members]_vars

\* A creation whose member insert failed has answered after its delete
\* removed the group row it had inserted.
C24_Witness ==
  \E r \in Slots :
    /\ Creating(r) /\ req[r].pc = "done"
    /\ req[r].merr = "error" /\ req[r].cerr = "ok" /\ req[r].status = 500
    /\ req[r].row # 0 /\ \A g \in group_schedules : g.id # req[r].row

\* C28: the compensating delete of a group creation removes only the group
\* row that the same request inserted: the rows of other groups and their
\* members stay as they are, also while other creations are under way.
C28_CleanupRemovesOwnRowOnly ==
  [][\A r \in Slots :
       (Creating(r) /\ req[r].pc = "cleanup" /\ req'[r].pc = "done") =>
         /\ \A s \in Slots \ {r} : Creating(s) => req[s].row # req[r].row
         /\ {g \in group_schedules' : g.id # req[r].row}
              = {g \in group_schedules : g.id # req[r].row}
         /\ {m \in group_members' : m.group_id # req[r].row}
              = {m \in group_members : m.group_id # req[r].row}
         /\ \A g \in group_schedules : g.id = req[r].row => g.created_by = req[r].user]_vars

\* One creation has removed its own row while the group of another
\* creation, with its creator's member row, is still there.
C28_Witness ==
  \E r \in Slots :
    /\ Creating(r) /\ req[r].pc = "done" /\ req[r].cerr = "ok"
    /\ \A g \in group_schedules : g.id # req[r].row
    /\ \E g \in group_schedules : \E m \in group_members : m.group_id = g.id

\* C25 as stated: once a non-creator has no member row, or no is_admin
\* flag, on a group, the store check of a PUT or GET on that group made by
\* that user ends the request with 401 (PUT) or 404 (GET).
Denied(q) ==
  /\ q.pc = "done"
  /\ q.fn = "updateGroupSchedule" => q.status = 401
  /\ q.fn = "getGroupSchedule" => q.status = 404

C25_Claim ==
  [][\A r \in Slots :
       (/\ req[r].pc \in {"upd_admin", "get_member"}
        /\ req'[r] # req[r] /\ ~req'[r].fault
        /\ ~IsCreator(req[r].id, req[r].user)
        /\ ~IsAdminMember(req[r].id, req[r].user)) => Denied(req'[r])]_vars

\* C25, amended: every request takes its grant from the store as it is
\* when the request checks it.  A non-creator without a member row is
\* answered 404 on GET and 401 on PUT; a non-creator whose row has lost
\* the is_admin flag is answered 401 on PUT and can still read; and no
\* request passes on to the read or the write without a grant that the
\* store holds at that step.
C25_GrantsAreRecomputed ==
  [][\A r \in Slots :
       (req'[r] # req[r] /\ ~req'[r].fault) =>
         /\ (req[r].pc = "get_member" /\ ~IsMember(req[r].id, req[r].user))
               => (req'[r].pc = "done" /\ req'[r].status = 404)
         /\ (req[r].pc = "upd_admin" /\ ~IsAdminMember(req[r].id, req[r].user))
               => (req'[r].pc = "done" /\ req'[r].status = 401)
         /\ (req[r].pc \in {"get_creator", "upd_creator"}
              /\ ~IsCreator(req[r].id, req[r].user))
               => req'[r].pc \in {"get_member", "upd_admin"}
         /\ (req[r].pc \in {"get_creator", "get_member"} /\ req'[r].pc = "get_group")
               => (IsCreator(req[r].id, req[r].user) \/ IsMember(req[r].id, req[r].user))
         /\ (req[r].pc \in {"upd_creator", "upd_admin"} /\ req'[r].pc = "upd_write")
               => (IsCreator(req[r].id, req[r].user)
                   \/ IsAdminMember(req[r].id, req[r].user))]_vars

\* An update of the second user was granted while the user was an admin
\* member and waits for its write; the member row is gone, and that user's
\* other update of the same group has been answered 401.
C25_Witness ==
  \E r, s \in Slots :
    /\ r # s
    /\ req[r].fn = "updateGroupSchedule" /\ req[r].pc = "upd_write"
    /\ req[r].authz = "admin"
    /\ req[s].fn = "updateGroupSchedule" /\ req[s].pc = "done" /\ req[s].status = 401
    /\ req[s].user = req[r].user /\ req[s].id = req[r].id /\ req[s].user # NoUser
    /\ ~IsMember(req[s].id, req[s].user)

\* C26 as stated: a deletion of an artist that is answered 200 leaves no
\* row that refers to the artist, and no row that refers to the artist is
\* added between the dependency checks of a deletion and its delete. The
\* checks and the delete are separate statements, so an insert of a
\* lineup entry, a set time or a collaboration commits between them.
Referring(artist_id) ==
  {<<"lineups", l.id>> : l \in {x \in lineups : x.artist_id = artist_id}}
    \cup {<<"set_times", t.id>> : t \in {x \in set_times : x.artist_id = artist_id}}
    \cup {<<"artist_collaborations", c.id>> :
             c \in {x \in artist_collaborations : x.artist_id = artist_id}}

Deleted(q) == q.fn = "deleteArtist" /\ q.pc = "done" /\ q.status = 200

C26_Claim ==
  /\ [](\A r \in Slots : Deleted(req[r]) => Referring(req[r].id) = {})
  /\ [][\A r \in Slots :
          (req[r].fn = "deleteArtist" /\ req[r].pc = "da_delete")
            => Referring(req[r].id)' \subseteq Referring(req[r].id)]_vars

\* C27: an update of a set time that changes stage_id goes on to the write
\* only if the new stage exists and the event whose readability the
\* handler has checked is the event of the new stage.
MovesTo(q) ==
  IF "stage_id" \in DOMAIN q.body
    THEN {s \in stages : s.id = q.body.stage_id
                           /\ \E t \in set_times : t.id = q.id /\ t.stage_id # s.id}
    ELSE {}

C27_Claim ==
  [][\A r \in Slots :
       (/\ req[r].fn = "updateSetTime"
        /\ req[r].pc = "ut_event" /\ req'[r].pc = "ut_update"
        /\ "stage_id" \in DOMAIN req[r].body
        /\ \E t \in set_times : t.id = req[r].id /\ t.stage_id # req[r].body.stage_id)
         => /\ MovesTo(req[r]) # {}
            /\ \A s \in MovesTo(req[r]) : s.event_id = req[r].row]_vars

\* C29: the listing of group schedules answers only groups that the caller
\* created or is a member of, as its two selects find them: the first
\* returns the groups the caller created and no other, and the answer holds
\* only rows of that select or of groups the caller is a member of, no id
\* twice, only groups of the event when event_id is given, and totalCount is
\* the number of these groups before paging.
ReadGroups(q) ==
  LET joined == MemberGroups(q.user)
      created == {q.row[k] : k \in 1..Len(q.row)}
      found == joined \cup {g \in created : \A j \in joined : j.id # g.id}
  IN {g \in found : q.body.eventId = <<>> \/ toString(g.event_id) = q.body.eventId}

C29_ListingIsTheCallersGroups ==
  [][\A r \in Slots :
       LET q == req[r]
           a == req'[r]
       IN /\ (q.pc = "lg_created" /\ a.pc = "lg_member") =>
               {a.row[k] : k \in 1..Len(a.row)} =
                 {g \in group_schedules : g.created_by = q.user}
          /\ (q.pc = "lg_member" /\ Listed(a)) =>
               /\ \A i \in 1..Len(a.data.rows) : a.data.rows[i] \in ReadGroups(q)
               /\ \A i, j \in 1..Len(a.data.rows) :
                     a.data.rows[i].id = a.data.rows[j].id => i = j
               /\ a.data.pagination.totalCount = Cardinality(ReadGroups(q))]_vars

\* The listing of event 1 for u1 holds group 1, which u1 created and has
\* deleted since the first select, and totalCount counts more groups than
\* the page holds.
C29_Witness ==
  \E r \in Slots :
    LET q == req[r] IN
    /\ Listed(q) /\ q.fn = "listGroupSchedules"
    /\ q.user = "u1" /\ q.body.eventId = <<"1">>
    /\ \E i \in 1..Len(q.data.rows) : q.data.rows[i].id = 1
    /\ GroupRows(1) = {}
    /\ q.data.pagination.totalCount > Len(q.data.rows)

\* C30: in the events function the id that the handler of a single event
\* reads from the URL is the id that the router extracted, also for a path
\* that begins with /functions/v1.
SingleEventHandlers == {"handleGetEvent", "handleUpdateEvent", "handleDeleteEvent"}

C30_Claim ==
  \A r \in Slots :
    (/\ req[r].fn = "serve" /\ req[r].pc = "dispatched"
     /\ req[r].body.function = "events"
     /\ req[r].data.handler \in SingleEventHandlers)
      => req[r].data.id = events_getEventIdFromUrl(normalizedPath(req[r].body.path))
====
